---- MODULE Spec2Model ----
(***************************************************************************)
(* A model of the immich client library: the parallel upload engine        *)
(* (src/src/api/upload.rs) and the Google Takeout planner                  *)
(* (src/src/takeout.rs, src/src/takeout/*.rs).                             *)
(*                                                                         *)
(* The state machines of this module share its variables:                  *)
(*   SpecEngine  - ParallelUpload::post with its workers, collector and    *)
(*                 the progress observer of the caller;                    *)
(*   SpecPlanner - Takeout::with_rules (pass 1) followed by the record     *)
(*                 iterator returned by Takeout::records (pass 2);         *)
(*   SpecAlbum   - Album::add_uploaded and the server it talks to;         *)
(*   SpecNormalize, SpecClassify, SpecId - calls of pure functions.        *)
(* Each specification keeps the other machines' variables unchanged.       *)
(***************************************************************************)
EXTENDS Integers, Sequences, FiniteSets, TLC

(***************************************************************************)
(* Bounds of the model.                                                    *)
(***************************************************************************)
MaxThreads == 2
MaxAssets == 3
FeedbackCap == 1
MaxEntries == 4
MaxNameLen == 6
MaxBaseLen == 4
MaxLenDelta == 1

(***************************************************************************)
(* General helpers.                                                        *)
(***************************************************************************)
Range(s) == {s[i] : i \in 1..Len(s)}

Count(s, x) == Cardinality({i \in 1..Len(s) : s[i] = x})

IsPrefix(s, t) == Len(s) <= Len(t) /\ \A i \in 1..Len(s) : s[i] = t[i]

SeqsUpTo(S, n) == UNION {[1..k -> S] : k \in 0..n}

VARIABLES
    \* ---- upload engine -------------------------------------------------
    threads,          \* ParallelUpload.threads
    assets,           \* the source iterator: the assets it will yield, in order
    produced,         \* how many assets the producer loop has sent
    asset_channel,    \* bounded::<Asset>(threads * 2): indices into assets
    worker,           \* per worker thread: [pc, asset]
    result_channel,   \* unbounded::<Uploaded>()
    result,           \* the collector thread's local Vec<Uploaded>
    collector,        \* the collector thread's position
    feedback,         \* TRUE iff post was given Some(channel)
    feedback_channel, \* items sent to the observer and not yet received by it
    feedback_open,    \* TRUE while the observer holds its Receiver
    delivered,        \* history: every item a feedback send completed with
    caller,           \* position of the thread running post
    joined,           \* how many worker handles post has joined
    returned,         \* the vector of Ok(vec), once post returned
    uploads,          \* history: per asset, how often Asset::upload ran on it
    \* ---- takeout planner -----------------------------------------------
    archive,          \* the tar archive: a sequence of entries
    edited_files,     \* Takeout.edited_files
    media,            \* MediaStore.media: canonical name -> Media
    phase,            \* position of the planner
    scanned,          \* pass 1: number of entries consumed
    iter_pos,         \* pass 2: number of entries consumed by Iter
    records,          \* pass 2: the records yielded so far, in order
    \* ---- calls of pure functions --------------------------------------
    call_input,       \* the argument a function is called with
    call_results,     \* the values returned so far, in order
    \* ---- album integrator ----------------------------------------------
    album_id,         \* Album.id of the album assets are added to
    upload_results,   \* the Vec<Uploaded> handed to Album::add_uploaded
    album_pc,         \* position of the thread running add_uploaded
    put_requests,     \* history: the PUT /albums/{id}/assets requests sent
    put_response,     \* history: the result list of the server's 200 answer
    server_assets,    \* the server: the asset ids in the album
    add_result,       \* what add_uploaded returned, once it has
    \* ---- albums of the server, Takeout uploader ------------------------
    server_albums,    \* the albums GET /albums lists, in the order it lists them
    album_calls,      \* the calls of Album::get_or_create so far
    facade,           \* Uploader::upload: its inputs, position and locals
    \* ---- the observers between the engine and the progress channel ----
    chain             \* the channels and threads from the collector to the observer

engineVars == <<threads, assets, produced, asset_channel, worker, result_channel,
                result, collector, feedback, feedback_channel, feedback_open,
                delivered, caller, joined, returned, uploads>>

plannerVars == <<archive, edited_files, media, phase, scanned, iter_pos, records>>

callVars == <<call_input, call_results>>

albumVars == <<album_id, upload_results, album_pc, put_requests, put_response,
               server_assets, add_result>>

facadeVars == <<server_albums, album_calls, facade>>

chainVars == <<chain>>

vars == <<engineVars, plannerVars, callVars, albumVars, facadeVars, chainVars>>

\* What the engine, and what the planner, leaves alone.
nonEngineVars == <<plannerVars, callVars, albumVars, facadeVars, chainVars>>

nonPlannerVars == <<engineVars, callVars, albumVars, facadeVars, chainVars>>

nonCallVars == <<engineVars, plannerVars, albumVars, facadeVars, chainVars>>

nonAlbumVars == <<engineVars, plannerVars, callVars, facadeVars, chainVars>>

nonFacadeVars == <<engineVars, plannerVars, callVars, albumVars, chainVars>>

nonChainVars == <<engineVars, plannerVars, callVars, albumVars, facadeVars>>

\* No function is being called.
CallIdle == call_input = <<>> /\ call_results = <<>>

\* No album is looked up and no archive is uploaded.
FacadeIdle == server_albums = <<>> /\ album_calls = <<>> /\ facade = <<>>

\* No result is on its way to the progress channel of Uploader::upload.
ChainIdle == chain = <<>>

\* add_uploaded is not being called.
AlbumIdle ==
    /\ album_id = <<>>
    /\ upload_results = <<>>
    /\ album_pc = "idle"
    /\ put_requests = <<>>
    /\ put_response = <<>>
    /\ server_assets = {}
    /\ add_result = <<>>


(***************************************************************************)
(*                        THE PARALLEL UPLOAD ENGINE                       *)
(***************************************************************************)

\* Status (api/upload.rs) and the outcomes of one POST /assets.
Statuses == {"Created", "Duplicate", "Failure"}

ServerOutcomes == {"created", "duplicate", "error"}

\* AssetId::default(): the empty id.  Ids are sequences, the empty one is <<>>.
EmptyId == <<>>

\* The id the server answers for the asset at position a of the stream.
RemoteId(a) == <<"asset", a>>

\* The client-side ids of the stream.  Two assets of a stream may carry the
\* same device_asset_id (the same file name in two folders).
DeviceIds == <<"a.jpg", "b.jpg">>

DeviceIdOf(a) == DeviceIds[((a - 1) % Len(DeviceIds)) + 1]

\* The asset streams post is run over: position a carries DeviceIdOf(a) and
\* the outcome the server will give it.
AssetStreams ==
    UNION {{[a \in 1..k |-> [device_asset_id |-> DeviceIdOf(a), outcome |-> o[a]]] :
                o \in [1..k -> ServerOutcomes]} : k \in 0..MaxAssets}

\* Mutant of from_failure: the device_asset_id is not copied.
from_failure_no_device_id(device_asset_id) ==
    [status |-> "Failure", id |-> EmptyId, device_asset_id |-> ""]

\* Uploaded::from_failure
from_failure(device_asset_id) ==
    [status |-> "Failure", id |-> EmptyId, device_asset_id |-> device_asset_id]

\* Asset::upload: POST /assets for the asset at position a.  On HTTP 200/201
\* the decoded Uploaded, with the asset's device_asset_id; otherwise an error.
asset_upload(a) ==
    IF assets[a].outcome = "error"
    THEN [ok |-> FALSE]
    ELSE [ok |-> TRUE,
          value |-> [status |-> IF assets[a].outcome = "created"
                                THEN "Created" ELSE "Duplicate",
                     id |-> RemoteId(a),
                     device_asset_id |-> assets[a].device_asset_id]]

Workers == 1..threads

\* Mutant of AssetSenderAlive: drop(asset_sender) is left out, so the sender
\* lives until post returns.
AssetSenderAliveNoDrop == caller \notin {"ok", "err"}

\* The endpoints that are alive.  ParallelUpload::upload takes the Receiver
\* and the Sender by value and drops them when it returns, so the clones of
\* the worker threads are the only ones left; a thread drops its clones when
\* it ends.  asset_sender lives until drop(asset_sender) or until post returns.
AssetSenderAlive == caller = "produce"

\* Mutant of AssetReceiversAlive: post keeps the Receiver it created.
AssetReceiversAliveKept == caller \notin {"ok", "err"}

AssetReceiversAlive == \E w \in Workers : worker[w].pc # "exited"

ResultSendersAlive == \E w \in Workers : worker[w].pc # "exited"

ResultReceiverAlive == collector \in {"recv", "send"}

Returned == caller \in {"ok", "err"}

\* Mutant of WorkerRecv: the newest asset of the channel is taken.
WorkerRecvLifo(w) ==
    /\ worker[w].pc = "recv"
    /\ IF asset_channel # <<>>
       THEN /\ worker' = [worker EXCEPT ![w] = [pc |-> "upload",
                                                asset |-> asset_channel[Len(asset_channel)]]]
            /\ asset_channel' = SubSeq(asset_channel, 1, Len(asset_channel) - 1)
       ELSE /\ ~AssetSenderAlive
            /\ worker' = [worker EXCEPT ![w] = [pc |-> "exited", asset |-> 0]]
            /\ UNCHANGED asset_channel
    /\ UNCHANGED nonEngineVars
    /\ UNCHANGED <<threads, assets, produced, result_channel, result, collector,
                   feedback, feedback_channel, feedback_open, delivered, caller,
                   joined, returned, uploads>>

\* Mutant of WorkerRecv: the asset is read but left in the channel.
WorkerRecvPeek(w) ==
    /\ worker[w].pc = "recv"
    /\ asset_channel # <<>>
    /\ worker' = [worker EXCEPT ![w] = [pc |-> "upload",
                                        asset |-> Head(asset_channel)]]
    /\ UNCHANGED nonEngineVars
    /\ UNCHANGED <<threads, assets, produced, asset_channel, result_channel,
                   result, collector, feedback, feedback_channel, feedback_open,
                   delivered, caller, joined, returned, uploads>>

\* while let Ok(mut asset) = rec.recv()
WorkerRecv(w) ==
    /\ worker[w].pc = "recv"
    /\ IF asset_channel # <<>>
       THEN /\ worker' = [worker EXCEPT ![w] = [pc |-> "upload",
                                                asset |-> Head(asset_channel)]]
            /\ asset_channel' = Tail(asset_channel)
       ELSE /\ ~AssetSenderAlive
            /\ worker' = [worker EXCEPT ![w] = [pc |-> "exited", asset |-> 0]]
            /\ UNCHANGED asset_channel
    /\ UNCHANGED nonEngineVars
    /\ UNCHANGED <<threads, assets, produced, result_channel, result, collector,
                   feedback, feedback_channel, feedback_open, delivered, caller,
                   joined, returned, uploads>>

\* The message a worker sends for the asset it holds:
\*   Ok(response) => res.send(response),
\*   Err(_) => res.send(Uploaded::from_failure(asset.device_asset_id()))
WorkerMessage(a) ==
    IF asset_upload(a).ok
    THEN asset_upload(a).value
    ELSE from_failure(assets[a].device_asset_id)

\* Mutant of ResultSend: a try_send on a channel of capacity one.
ResultSendLossy(msg) ==
    IF ResultReceiverAlive /\ result_channel = <<>>
    THEN Append(result_channel, msg)
    ELSE result_channel

\* res.send(..) on the unbounded result channel: never blocks; it fails when
\* the receiver is gone, and the worker ignores that (let _ = ...).
ResultSend(msg) ==
    IF ResultReceiverAlive THEN Append(result_channel, msg) ELSE result_channel

\* let _ = match asset.upload(&client) { ... };  then back to rec.recv()
WorkerUpload(w) ==
    /\ worker[w].pc = "upload"
    /\ result_channel' = ResultSend(WorkerMessage(worker[w].asset))
    /\ uploads' = [uploads EXCEPT ![worker[w].asset] = @ + 1]
    /\ worker' = [worker EXCEPT ![w] = [pc |-> "recv", asset |-> 0]]
    /\ UNCHANGED nonEngineVars
    /\ UNCHANGED <<threads, assets, produced, asset_channel, result, collector,
                   feedback, feedback_channel, feedback_open, delivered, caller,
                   joined, returned>>

\* Mutant of CollectorRecv: an empty result channel ends the collector, senders
\* or not.
CollectorRecvNoWait ==
    /\ collector = "recv"
    /\ IF result_channel # <<>>
       THEN /\ result' = Append(result, Head(result_channel))
            /\ result_channel' = Tail(result_channel)
            /\ collector' = IF feedback THEN "send" ELSE "recv"
       ELSE /\ collector' = "done"
            /\ UNCHANGED <<result, result_channel>>
    /\ UNCHANGED nonEngineVars
    /\ UNCHANGED <<threads, assets, produced, asset_channel, worker, feedback,
                   feedback_channel, feedback_open, delivered, caller, joined,
                   returned, uploads>>

\* while let Ok(response) = result_receiver.recv() { result.push(response.clone());
CollectorRecv ==
    /\ collector = "recv"
    /\ IF result_channel # <<>>
       THEN /\ result' = Append(result, Head(result_channel))
            /\ result_channel' = Tail(result_channel)
            /\ collector' = IF feedback THEN "send" ELSE "recv"
       ELSE /\ ~ResultSendersAlive
            /\ collector' = "done"
            /\ UNCHANGED <<result, result_channel>>
    /\ UNCHANGED nonEngineVars
    /\ UNCHANGED <<threads, assets, produced, asset_channel, worker, feedback,
                   feedback_channel, feedback_open, delivered, caller, joined,
                   returned, uploads>>

\* Mutant of CollectorSend: the first result is forwarded every time.
CollectorSendFirst ==
    /\ collector = "send"
    /\ IF ~feedback_open
       THEN /\ collector' = "panicked"
            /\ result_channel' = <<>>
            /\ UNCHANGED <<feedback_channel, delivered>>
       ELSE /\ Len(feedback_channel) < FeedbackCap
            /\ feedback_channel' = Append(feedback_channel, result[1])
            /\ delivered' = Append(delivered, result[1])
            /\ collector' = "recv"
            /\ UNCHANGED result_channel
    /\ UNCHANGED nonEngineVars
    /\ UNCHANGED <<threads, assets, produced, asset_channel, worker, result,
                   feedback, feedback_open, caller, joined, returned, uploads>>

\* Mutant of CollectorSend: the outcome of the send is ignored.
CollectorSendIgnoreError ==
    /\ collector = "send"
    /\ IF ~feedback_open
       THEN UNCHANGED <<feedback_channel, delivered>>
       ELSE /\ Len(feedback_channel) < FeedbackCap
            /\ feedback_channel' = Append(feedback_channel, result[Len(result)])
            /\ delivered' = Append(delivered, result[Len(result)])
    /\ collector' = "recv"
    /\ UNCHANGED nonEngineVars
    /\ UNCHANGED <<threads, assets, produced, asset_channel, worker, result,
                   result_channel, feedback, feedback_open, caller, joined,
                   returned, uploads>>

\* channel.send(response).expect("The feedback channel must remain open throughout")
\* The send blocks while the observer's channel is full and fails, so that
\* expect panics, once the observer's Receiver is dropped.  A panic unwinds
\* the collector thread: result_receiver is dropped with what it holds.
CollectorSend ==
    /\ collector = "send"
    /\ IF ~feedback_open
       THEN /\ collector' = "panicked"
            /\ result_channel' = <<>>
            /\ UNCHANGED <<feedback_channel, delivered>>
       ELSE /\ Len(feedback_channel) < FeedbackCap
            /\ feedback_channel' = Append(feedback_channel, result[Len(result)])
            /\ delivered' = Append(delivered, result[Len(result)])
            /\ collector' = "recv"
            /\ UNCHANGED result_channel
    /\ UNCHANGED nonEngineVars
    /\ UNCHANGED <<threads, assets, produced, asset_channel, worker, result,
                   feedback, feedback_open, caller, joined, returned, uploads>>

\* Mutant of ProducerSend: the channel takes any number of assets.
ProducerSendUnbounded ==
    /\ caller = "produce"
    /\ produced < Len(assets)
    /\ IF ~AssetReceiversAlive
       THEN /\ caller' = "err"
            /\ UNCHANGED <<asset_channel, produced>>
       ELSE /\ asset_channel' = Append(asset_channel, produced + 1)
            /\ produced' = produced + 1
            /\ UNCHANGED caller
    /\ UNCHANGED nonEngineVars
    /\ UNCHANGED <<threads, assets, worker, result_channel, result, collector,
                   feedback, feedback_channel, feedback_open, delivered, joined,
                   returned, uploads>>

\* for asset in assets { asset_sender.send(asset)? }
\* send blocks while the channel holds threads * 2 assets and fails, which
\* post turns into Err(Multithread), when no Receiver is left.
ProducerSend ==
    /\ caller = "produce"
    /\ produced < Len(assets)
    /\ IF ~AssetReceiversAlive
       THEN /\ caller' = "err"
            /\ UNCHANGED <<asset_channel, produced>>
       ELSE /\ Len(asset_channel) < threads * 2
            /\ asset_channel' = Append(asset_channel, produced + 1)
            /\ produced' = produced + 1
            /\ UNCHANGED caller
    /\ UNCHANGED nonEngineVars
    /\ UNCHANGED <<threads, assets, worker, result_channel, result, collector,
                   feedback, feedback_channel, feedback_open, delivered, joined,
                   returned, uploads>>

\* drop(asset_sender);
ProducerClose ==
    /\ caller = "produce"
    /\ produced = Len(assets)
    /\ caller' = IF threads = 0 THEN "join_collector" ELSE "join_workers"
    /\ UNCHANGED nonEngineVars
    /\ UNCHANGED <<threads, assets, produced, asset_channel, worker,
                   result_channel, result, collector, feedback, feedback_channel,
                   feedback_open, delivered, joined, returned, uploads>>

\* for thread in threads { thread.join().map_err(|_| ImmichError::Multithread)? }
\* The worker closure has no panicking call of its own, so every join is Ok.
JoinWorker ==
    /\ caller = "join_workers"
    /\ worker[joined + 1].pc = "exited"
    /\ joined' = joined + 1
    /\ caller' = IF joined + 1 = threads THEN "join_collector" ELSE "join_workers"
    /\ UNCHANGED nonEngineVars
    /\ UNCHANGED <<threads, assets, produced, asset_channel, worker,
                   result_channel, result, collector, feedback, feedback_channel,
                   feedback_open, delivered, returned, uploads>>

\* Mutant of JoinCollector: the vector is taken without waiting for the
\* collector thread to end.
JoinCollectorEarly ==
    /\ caller = "join_collector"
    /\ IF collector = "panicked"
       THEN caller' = "err" /\ UNCHANGED returned
       ELSE caller' = "ok" /\ returned' = result
    /\ UNCHANGED nonEngineVars
    /\ UNCHANGED <<threads, assets, produced, asset_channel, worker,
                   result_channel, result, collector, feedback, feedback_channel,
                   feedback_open, delivered, joined, uploads>>

\* results.join().map_err(|_| ImmichError::Multithread)
JoinCollector ==
    /\ caller = "join_collector"
    /\ collector \in {"done", "panicked"}
    /\ IF collector = "done"
       THEN caller' = "ok" /\ returned' = result
       ELSE caller' = "err" /\ UNCHANGED returned
    /\ UNCHANGED nonEngineVars
    /\ UNCHANGED <<threads, assets, produced, asset_channel, worker,
                   result_channel, result, collector, feedback, feedback_channel,
                   feedback_open, delivered, joined, uploads>>

\* The observer (the holder of the Receiver of the progress channel) takes
\* the next item.
ObserverRecv ==
    /\ feedback_open
    /\ feedback_channel # <<>>
    /\ feedback_channel' = Tail(feedback_channel)
    /\ UNCHANGED nonEngineVars
    /\ UNCHANGED <<threads, assets, produced, asset_channel, worker,
                   result_channel, result, collector, feedback, feedback_open,
                   delivered, caller, joined, returned, uploads>>

\* The observer drops its Receiver while post is running.
ObserverDrop ==
    /\ feedback
    /\ feedback_open
    /\ ~Returned
    /\ feedback_open' = FALSE
    /\ feedback_channel' = <<>>
    /\ UNCHANGED nonEngineVars
    /\ UNCHANGED <<threads, assets, produced, asset_channel, worker,
                   result_channel, result, collector, feedback, delivered,
                   caller, joined, returned, uploads>>

PlannerIdle ==
    /\ archive = <<>>
    /\ edited_files = "PreferEdited"
    /\ media = <<>>
    /\ phase = "idle"
    /\ scanned = 0
    /\ iter_pos = 0
    /\ records = <<>>

NonEngineIdle == PlannerIdle /\ CallIdle /\ AlbumIdle /\ FacadeIdle /\ ChainIdle

\* The state right after post has made its channels and spawned the workers
\* and the collector, for the thread count n and the asset stream as.
EngineStart(n, as) ==
    /\ threads = n
    /\ assets = as
    /\ feedback \in BOOLEAN
    /\ produced = 0
    /\ asset_channel = <<>>
    /\ worker = [w \in 1..n |-> [pc |-> "recv", asset |-> 0]]
    /\ result_channel = <<>>
    /\ result = <<>>
    /\ collector = "recv"
    /\ feedback_channel = <<>>
    /\ feedback_open = feedback
    /\ delivered = <<>>
    /\ caller = "produce"
    /\ joined = 0
    /\ returned = <<>>
    /\ uploads = [a \in 1..Len(as) |-> 0]

InitEngine ==
    /\ \E n \in 1..MaxThreads, as \in AssetStreams : EngineStart(n, as)
    /\ NonEngineIdle

\* The streams of the fair specification: Created and Duplicate answers take
\* the same path through the engine, so it draws only one of the two.
InitEngineFair ==
    /\ \E n \in 1..MaxThreads,
          as \in {x \in AssetStreams : \A a \in 1..Len(x) : x[a].outcome # "duplicate"} :
            EngineStart(n, as)
    /\ NonEngineIdle

WorkerStep(w) == WorkerRecv(w) \/ WorkerUpload(w)

CollectorStep == CollectorRecv \/ CollectorSend

CallerStep == ProducerSend \/ ProducerClose \/ JoinWorker \/ JoinCollector

NextEngine ==
    \/ \E w \in Workers : WorkerRecv(w)
    \/ \E w \in Workers : WorkerUpload(w)
    \/ CollectorRecv
    \/ CollectorSend
    \/ ProducerSend
    \/ ProducerClose
    \/ JoinWorker
    \/ JoinCollector
    \/ ObserverRecv
    \/ ObserverDrop

SpecEngine == InitEngine /\ [][NextEngine]_vars

\* Preemptive OS threads: a thread that can take a step eventually takes it,
\* every upload attempt ends, and the observer keeps taking what it is sent.
FairEngine ==
    /\ \A w \in 1..MaxThreads : WF_vars(w \in Workers /\ WorkerStep(w))
    /\ WF_vars(CollectorStep)
    /\ WF_vars(CallerStep)
    /\ WF_vars(ObserverRecv)

SpecEngineFair == InitEngineFair /\ [][NextEngine]_vars /\ FairEngine

(***************************************************************************)
(* Properties of the upload engine.                                        *)
(***************************************************************************)

\* The result the server outcome of the asset at position a calls for: the
\* server's answer with the asset's ids, or a Failure entry with an empty id.
ExpectedResult(a) ==
    CASE assets[a].outcome = "created" ->
            [status |-> "Created", id |-> RemoteId(a),
             device_asset_id |-> assets[a].device_asset_id]
      [] assets[a].outcome = "duplicate" ->
            [status |-> "Duplicate", id |-> RemoteId(a),
             device_asset_id |-> assets[a].device_asset_id]
      [] assets[a].outcome = "error" ->
            [status |-> "Failure", id |-> EmptyId,
             device_asset_id |-> assets[a].device_asset_id]

ExpectedCount(r) == Cardinality({a \in 1..Len(assets) : ExpectedResult(a) = r})

\* v holds, as a multiset, exactly the expected result of every asset.
IsPermutationOfExpected(v) ==
    /\ Len(v) = Len(assets)
    /\ \A r \in Range(v) \cup {ExpectedResult(a) : a \in 1..Len(assets)} :
            Count(v, r) = ExpectedCount(r)

\* C1: when no thread panics post returns Ok, and the vector of Ok has one
\* entry per asset of the stream and is a permutation of the per-asset
\* results; as these depend on the stream alone, the multiset is the same
\* for every thread count.
EngineCompleteness ==
    /\ caller = "ok" => IsPermutationOfExpected(returned)
    /\ caller = "err" => collector = "panicked"

\* C1 witness: post returned Ok from two workers, three assets, one of them
\* failed, and the results came back in another order than they were sent.
EngineCompletenessWitness ==
    /\ caller = "ok"
    /\ threads = 2
    /\ Len(returned) = 3
    /\ \E i \in 1..3 : returned[i].status = "Failure"
    /\ returned[1] # ExpectedResult(1)

\* Where the asset at position a is: in the work channel, in a worker's
\* hands, or uploaded.
InChannel(a) == Count(asset_channel, a)

InHands(a) == Cardinality({w \in Workers : worker[w].asset = a})

\* C2: every asset the producer has sent is in exactly one place: still in
\* the channel, held by exactly one worker, or uploaded exactly once; and
\* when post returns Ok every asset of the stream was uploaded exactly once.
UploadedExactlyOnce ==
    /\ \A a \in 1..Len(assets) :
          /\ a <= produced => InChannel(a) + InHands(a) + uploads[a] = 1
          /\ a > produced => InChannel(a) + InHands(a) + uploads[a] = 0
    /\ caller = "ok" => \A a \in 1..Len(assets) : uploads[a] = 1

\* C2 witness: two workers hold an asset each while a third asset waits in
\* the channel.
UploadedExactlyOnceWitness ==
    /\ threads = 2
    /\ \A w \in Workers : worker[w].pc = "upload"
    /\ asset_channel # <<>>

\* A worker finishes the upload of an asset the server answers an error for.
FailedUploadStep(w) ==
    /\ worker[w].pc = "upload"
    /\ assets[worker[w].asset].outcome = "error"
    /\ worker'[w].pc # "upload"

\* C3: a failed upload makes the worker push exactly one Failure entry, with
\* an empty id and the asset's device_asset_id, and go back to receiving;
\* post never returns an error because of it (only a panicked collector makes
\* it fail), and the vector of Ok has one such entry per failed asset.
FailureIsRecoveredLocally ==
    [][/\ \A w \in Workers :
            FailedUploadStep(w) =>
                /\ worker'[w].pc = "recv"
                /\ ResultReceiverAlive =>
                      result_channel' = Append(result_channel,
                          [status |-> "Failure", id |-> EmptyId,
                           device_asset_id |->
                               assets[worker[w].asset].device_asset_id])
                /\ caller' = caller
       /\ caller' = "err" => collector' = "panicked"
       /\ caller' = "ok" =>
            /\ \A i \in 1..Len(returned') :
                  returned'[i].status = "Failure" => returned'[i].id = EmptyId
            /\ \A d \in Range(DeviceIds) :
                  Cardinality({i \in 1..Len(returned') :
                                  /\ returned'[i].status = "Failure"
                                  /\ returned'[i].device_asset_id = d})
                  = Cardinality({a \in 1..Len(assets) :
                                  /\ assets[a].outcome = "error"
                                  /\ assets[a].device_asset_id = d})
      ]_vars

\* C3 witness: post returned Ok although the first asset failed, and the
\* assets after it have their own results.
FailureIsRecoveredLocallyWitness ==
    /\ caller = "ok"
    /\ Len(assets) = 3
    /\ assets[1].outcome = "error"
    /\ \E i \in 1..3 : returned[i] = from_failure(assets[1].device_asset_id)
    /\ \E i \in 1..3 : returned[i].status = "Created"

\* C4: under fair scheduling post returns, and when it has returned every
\* worker and the collector thread have ended.
PostTerminates ==
    /\ <>Returned
    /\ [](Returned =>
            /\ \A w \in Workers : worker[w].pc = "exited"
            /\ collector \in {"done", "panicked"})

\* C4 witness: post has returned Ok, with a progress observer, after the
\* whole stream went through one worker (whose channel holds two assets).
PostTerminatesWitness ==
    /\ caller = "ok"
    /\ feedback
    /\ threads = 1
    /\ Len(returned) = 3
    /\ \A w \in Workers : worker[w].pc = "exited"
    /\ collector = "done"

\* C5: with a progress observer, what has been delivered to it is at every
\* moment a prefix of the collector's vector (each result once, in the order
\* of the vector, at most the last one still to be forwarded), and equals the
\* returned vector when post returns Ok; without one nothing is delivered.
ObserverSeesCollectorOrder ==
    /\ IsPrefix(delivered, result)
    /\ feedback /\ collector # "send" /\ collector # "panicked" => delivered = result
    /\ collector = "send" => Len(delivered) = Len(result) - 1
    /\ ~feedback => delivered = <<>>
    /\ caller = "ok" /\ feedback => delivered = returned

\* C5 witness: post returned Ok and the observer was sent three results, not
\* in the order of the stream.
ObserverSeesCollectorOrderWitness ==
    /\ caller = "ok"
    /\ feedback
    /\ Len(delivered) = 3
    /\ delivered[1] # ExpectedResult(1)

\* The collector is forwarding an item the observer does not accept: its
\* send on the observer's full channel blocks.
CollectorBlocked ==
    /\ collector = "send"
    /\ feedback_open
    /\ Len(feedback_channel) >= FeedbackCap

\* C6 as claimed: while the collector is blocked on the observer no upload
\* completes, the producer sends nothing and post does not return.
BackPressureStopsPipeline ==
    [][CollectorBlocked =>
          /\ uploads' = uploads
          /\ produced' = produced
          /\ ~Returned']_vars

\* C6 as amended: while the collector is blocked on the observer it appends
\* nothing to its vector and forwards nothing, and post does not return; the
\* workers and the producer are not held up.
BackPressureStopsCollector ==
    [][CollectorBlocked =>
          /\ result' = result
          /\ delivered' = delivered
          /\ ~Returned']_vars

\* C6 witness: the collector is blocked on the observer while every asset of
\* a stream of three has been uploaded and results wait in the result channel.
BackPressureStopsCollectorWitness ==
    /\ CollectorBlocked
    /\ Len(assets) = 3
    /\ \A a \in 1..3 : uploads[a] = 1
    /\ Len(result_channel) >= 1

\* C7: once the observer has dropped its endpoint, a forward of the
\* collector panics, post never returns Ok after that and it does return
\* Err(Multithread).
DroppedObserverFailsPost ==
    /\ [][collector = "send" /\ ~feedback_open /\ collector' # "send"
            => collector' = "panicked"]_vars
    /\ [](collector = "panicked" => caller # "ok")
    /\ (collector = "send" /\ ~feedback_open) ~> (caller = "err")

\* C7 witness: post returned Err after the observer, which had been sent a
\* result, dropped its endpoint while results were still to come.
DroppedObserverFailsPostWitness ==
    /\ caller = "err"
    /\ collector = "panicked"
    /\ Len(delivered) >= 1
    /\ Len(result) < Len(assets)

(***************************************************************************)
(*                          THE TAKEOUT PLANNER                            *)
(***************************************************************************)

(***************************************************************************)
(* File names are sequences of tokens.  A token is a piece of text that    *)
(* none of the patterns the code searches for ("-edited", ".json",         *)
(* ".supplemental-metadata", "edited", ".", "(", ")") can straddle, so the *)
(* string operations of the code are the same operations on tokens.        *)
(***************************************************************************)

\* str::ends_with for a one-token pattern
EndsWith(s, t) == Len(s) >= 1 /\ s[Len(s)] = t

\* str::rfind for a one-token pattern: the last position of t in s, 0 for None
RFind(s, t) ==
    IF \E i \in 1..Len(s) : s[i] = t
    THEN CHOOSE i \in 1..Len(s) : s[i] = t /\ \A j \in (i + 1)..Len(s) : s[j] # t
    ELSE 0

\* str::contains for a one-token pattern
Contains(s, t) == \E i \in 1..Len(s) : s[i] = t

\* str::replace(pat, ""): every match of pat, found from the left and not
\* overlapping, is removed
RECURSIVE Remove(_, _)
Remove(s, pat) ==
    IF Len(s) < Len(pat) THEN s
    ELSE IF SubSeq(s, 1, Len(pat)) = pat
         THEN Remove(SubSeq(s, Len(pat) + 1, Len(s)), pat)
         ELSE <<s[1]>> \o Remove(Tail(s), pat)

\* Mutant of to_lowercase: the extension is compared as it is written.
to_lowercase_identity(t) == t

\* str::to_lowercase on the tokens that have upper case letters
to_lowercase(t) ==
    CASE t = "JPG" -> "jpg"
      [] t = "JSON" -> "json"
      [] OTHER -> t

\* Filename::MEDIA_EXTENSIONS
MEDIA_EXTENSIONS ==
    {"jpg", "jpeg", "png", "webp", "heic", "mp4", "m4v", "webm", "3gp", "gif"}

\* Path::extension: what follows the last "." of the file name; None (<<>>
\* for None, <<ext>> for Some(ext)) without a file name, without a "." or
\* when the only "." starts the name.
extension(path) ==
    IF path.file = <<>> \/ RFind(path.file, ".") <= 1
    THEN <<>>
    ELSE <<SubSeq(path.file, RFind(path.file, ".") + 1, Len(path.file))>>

\* impl TryFrom<&Cow<'_, Path>> for FileType
FileType_try_from(path) ==
    IF extension(path) = <<>>
    THEN [ok |-> FALSE, error |-> "FileNameError"]
    ELSE LET ext == [i \in 1..Len(extension(path)[1]) |->
                        to_lowercase(extension(path)[1][i])]
         IN  IF ext = <<"json">>
             THEN [ok |-> TRUE, filetype |-> "Metadata"]
             ELSE IF Len(ext) = 1 /\ ext[1] \in MEDIA_EXTENSIONS
                  THEN IF Contains(path.file, "edited")
                       THEN [ok |-> TRUE, filetype |-> "Edited"]
                       ELSE [ok |-> TRUE, filetype |-> "Original"]
                  ELSE [ok |-> TRUE, filetype |-> "Unknown"]

\* Filename::normalize_duplicates
normalize_duplicates(name) ==
    IF EndsWith(name, ")") /\ RFind(name, "(") # 0
    THEN LET idx == RFind(name, "(")
             number == SubSeq(name, idx, Len(name))
             rest == SubSeq(name, 1, idx - 1)
             dot == RFind(rest, ".")
         IN  IF dot # 0
             THEN SubSeq(rest, 1, dot - 1) \o number \o SubSeq(rest, dot, Len(rest))
             ELSE rest
    ELSE name

\* impl TryFrom<&Entry<'_, GzDecoder<File>>> for Filename
Filename_try_from(path) ==
    IF ~FileType_try_from(path).ok
    THEN FileType_try_from(path)
    ELSE IF path.dirs = <<>> \/ path.file = <<>>
         THEN [ok |-> FALSE, error |-> "FilePathError"]
         ELSE [ok |-> TRUE,
               album |-> path.dirs[Len(path.dirs)],
               name |-> normalize_duplicates(
                            Remove(Remove(Remove(path.file, <<"-", "edited">>),
                                          <<".", "supplemental-metadata">>),
                                   <<".", "json">>)),
               filetype |-> FileType_try_from(path).filetype]

(***************************************************************************)
(* Sidecars.  A text is a sequence of one-character tokens.                *)
(***************************************************************************)
Digits == <<"0", "1", "2", "3", "4", "5", "6", "7", "8", "9">>

DigitValue(c) == (CHOOSE i \in 1..Len(Digits) : Digits[i] = c) - 1

\* str::parse::<i64> for texts without a sign
RECURSIVE parse_i64(_)
parse_i64(text) ==
    IF text = <<>> \/ \E i \in 1..Len(text) : text[i] \notin Range(Digits)
    THEN [ok |-> FALSE]
    ELSE IF Len(text) = 1
         THEN [ok |-> TRUE, value |-> DigitValue(text[1])]
         ELSE [ok |-> TRUE,
               value |-> parse_i64(SubSeq(text, 1, Len(text) - 1)).value * 10
                         + DigitValue(text[Len(text)])]

\* metadata::parse: the sidecar must be JSON with photoTakenTime.timestamp,
\* a text that parses as i64.  An OffsetDateTime is held as its Unix seconds.
metadata_parse(content) ==
    IF ~content.json \/ content.photoTakenTime = <<>>
    THEN [ok |-> FALSE, error |-> "InvalidMetadata"]
    ELSE IF ~parse_i64(content.photoTakenTime[1]).ok
         THEN [ok |-> FALSE, error |-> "InvalidMetadata"]
         ELSE [ok |-> TRUE, value |-> parse_i64(content.photoTakenTime[1]).value]

(***************************************************************************)
(* The media store.  date_taken is <<>> for None and <<t>> for Some(t).    *)
(***************************************************************************)

\* Media::from_original
from_original(name, album) ==
    [date_taken |-> <<>>, name |-> name, edited |-> FALSE, original |-> TRUE,
     albums |-> <<album>>]

\* Media::from_edited
from_edited(name, album) ==
    [date_taken |-> <<>>, name |-> name, edited |-> TRUE, original |-> FALSE,
     albums |-> <<album>>]

\* Media::from_metadata
from_metadata(name, album, date_taken) ==
    [date_taken |-> <<date_taken>>, name |-> name, edited |-> FALSE,
     original |-> FALSE, albums |-> <<album>>]

\* HashMap::entry(key).and_modify(f).or_insert(fresh): store with the value
\* at key modified when there is one, inserted otherwise.
Upsert(store, key, modified, fresh) ==
    [n \in DOMAIN store \cup {key} |->
        IF n = key
        THEN IF key \in DOMAIN store THEN modified ELSE fresh
        ELSE store[n]]

\* Mutant of add_metadata: a sidecar sets the date of a name already in the
\* store and leaves its albums alone.
add_metadata_no_album(store, file, date_taken) ==
    Upsert(store, file.name,
           IF file.name \in DOMAIN store
           THEN [store[file.name] EXCEPT !.date_taken = <<date_taken>>]
           ELSE <<>>,
           from_metadata(file.name, file.album, date_taken))

\* MediaStore::add_metadata
add_metadata(store, file, date_taken) ==
    Upsert(store, file.name,
           IF file.name \in DOMAIN store
           THEN [store[file.name] EXCEPT !.date_taken = <<date_taken>>,
                                         !.albums = Append(@, file.album)]
           ELSE <<>>,
           from_metadata(file.name, file.album, date_taken))

\* Mutant of add_original: the flag of a name already in the store is not set.
add_original_keeps_flag(store, file) ==
    Upsert(store, file.name,
           IF file.name \in DOMAIN store
           THEN [store[file.name] EXCEPT !.albums = Append(@, file.album)]
           ELSE <<>>,
           from_original(file.name, file.album))

\* MediaStore::add_original
add_original(store, file) ==
    Upsert(store, file.name,
           IF file.name \in DOMAIN store
           THEN [store[file.name] EXCEPT !.original = TRUE,
                                         !.albums = Append(@, file.album)]
           ELSE <<>>,
           from_original(file.name, file.album))

\* Mutant of add_edited: the flag of the original is reset.
add_edited_resets_original(store, file) ==
    Upsert(store, file.name,
           IF file.name \in DOMAIN store
           THEN [store[file.name] EXCEPT !.edited = TRUE, !.original = FALSE,
                                         !.albums = Append(@, file.album)]
           ELSE <<>>,
           from_edited(file.name, file.album))

\* MediaStore::add_edited
add_edited(store, file) ==
    Upsert(store, file.name,
           IF file.name \in DOMAIN store
           THEN [store[file.name] EXCEPT !.edited = TRUE,
                                         !.albums = Append(@, file.album)]
           ELSE <<>>,
           from_edited(file.name, file.album))

\* HandleEdited::use_edited
use_edited(policy) == policy # "PreferOriginal"

\* Mutant of use_original: the test is for the wrong variant.
use_original_wrong_variant(policy) == policy # "PreferOriginal"

\* HandleEdited::use_original
use_original(policy) == policy # "PreferEdited"

HandleEdited == {"PreferEdited", "UseBoth", "PreferOriginal"}

(***************************************************************************)
(* The archives.  An entry is a path and what the entry holds; only the    *)
(* content of sidecars is looked at.                                       *)
(***************************************************************************)
NoContent == [json |-> FALSE, photoTakenTime |-> <<>>]

Sidecar(timestamp) == [json |-> TRUE, photoTakenTime |-> <<timestamp>>]

\* "1370762069", the timestamp of the sidecar of the repository's test
Timestamp == <<"1", "3", "7", "0", "7", "6", "2", "0", "6", "9">>

\* The entries an archive is made of.
Entries ==
    << [path |-> [dirs |-> <<"Album1">>, file |-> <<"a", ".", "jpg">>],
        content |-> NoContent],
       [path |-> [dirs |-> <<"Album1">>, file |-> <<"a", ".", "jpg", ".", "json">>],
        content |-> Sidecar(Timestamp)],
       [path |-> [dirs |-> <<"Album1">>, file |-> <<"a", "-", "edited", ".", "jpg">>],
        content |-> NoContent],
       [path |-> [dirs |-> <<"Album2">>, file |-> <<"a", ".", "jpg">>],
        content |-> NoContent],
       [path |-> [dirs |-> <<"Album2">>, file |-> <<"b", "-", "edited", ".", "JPG">>],
        content |-> NoContent],
       [path |-> [dirs |-> <<"Album1">>, file |-> <<"b", ".", "JPG", ".", "json">>],
        content |-> NoContent],
       [path |-> [dirs |-> <<"Album1">>, file |-> <<"notes", ".", "txt">>],
        content |-> NoContent],
       [path |-> [dirs |-> <<"Album1">>, file |-> <<"README">>],
        content |-> NoContent] >>

\* The archives: up to MaxEntries entries, each path at most once.
Archives ==
    {[i \in 1..Len(order) |-> Entries[order[i]]] :
        order \in {o \in SeqsUpTo(1..Len(Entries), MaxEntries) :
                      \A i, j \in 1..Len(o) : i # j => o[i] # o[j]}}

EngineIdle ==
    /\ threads = 0
    /\ assets = <<>>
    /\ feedback = FALSE
    /\ produced = 0
    /\ asset_channel = <<>>
    /\ worker = <<>>
    /\ result_channel = <<>>
    /\ result = <<>>
    /\ collector = "idle"
    /\ feedback_channel = <<>>
    /\ feedback_open = FALSE
    /\ delivered = <<>>
    /\ caller = "idle"
    /\ joined = 0
    /\ returned = <<>>
    /\ uploads = <<>>

NonPlannerIdle == EngineIdle /\ CallIdle /\ AlbumIdle /\ FacadeIdle /\ ChainIdle

\* Takeout::with_rules is called on an archive with a policy.
InitPlanner ==
    /\ archive \in Archives
    /\ edited_files \in HandleEdited
    /\ media = <<>>
    /\ phase = "scan"
    /\ scanned = 0
    /\ iter_pos = 0
    /\ records = <<>>
    /\ NonPlannerIdle

\* Mutant of scan_entry: a sidecar that cannot be parsed is recorded without
\* a date.
scan_entry_tracks_bad_sidecar(store, policy, entry, file) ==
    CASE file.filetype = "Metadata" ->
            IF metadata_parse(entry.content).ok
            THEN add_metadata(store, file, metadata_parse(entry.content).value)
            ELSE Upsert(store, file.name,
                        IF file.name \in DOMAIN store
                        THEN [store[file.name] EXCEPT !.albums = Append(@, file.album)]
                        ELSE <<>>,
                        [date_taken |-> <<>>, name |-> file.name, edited |-> FALSE,
                         original |-> FALSE, albums |-> <<file.album>>])
      [] file.filetype = "Edited" ->
            IF use_edited(policy) THEN add_edited(store, file) ELSE store
      [] file.filetype = "Original" -> add_original(store, file)
      [] OTHER -> store

\* Mutant of scan_entry: edited entries are never recorded.
scan_entry_skips_edited(store, policy, entry, file) ==
    CASE file.filetype = "Metadata" ->
            IF metadata_parse(entry.content).ok
            THEN add_metadata(store, file, metadata_parse(entry.content).value)
            ELSE store
      [] file.filetype = "Edited" -> store
      [] file.filetype = "Original" -> add_original(store, file)
      [] OTHER -> store

\* The store after the body of the loop of Takeout::first_scan has run for an
\* entry with the Filename file.
scan_entry(store, policy, entry, file) ==
    CASE file.filetype = "Metadata" ->
            IF metadata_parse(entry.content).ok
            THEN add_metadata(store, file, metadata_parse(entry.content).value)
            ELSE store
      [] file.filetype = "Edited" ->
            IF use_edited(policy) THEN add_edited(store, file) ELSE store
      [] file.filetype = "Original" -> add_original(store, file)
      [] OTHER -> store

\* Takeout::first_scan, one entry of the loop:
\*   let filename = Filename::try_from(&entry)?;  match filename.filetype() ..
ScanEntry ==
    /\ phase = "scan"
    /\ scanned < Len(archive)
    /\ LET entry == archive[scanned + 1]
           file == Filename_try_from(entry.path)
       IN  IF file.ok
           THEN /\ media' = scan_entry(media, edited_files, entry, file)
                /\ scanned' = scanned + 1
                /\ UNCHANGED phase
           ELSE /\ phase' = "error"
                /\ UNCHANGED <<media, scanned>>
    /\ UNCHANGED <<archive, edited_files, iter_pos, records>>
    /\ UNCHANGED nonPlannerVars

\* Takeout::first_scan returns Ok(media); with_rules rewinds the file and
\* Takeout::records hands out the iterator of pass 2.
ScanDone ==
    /\ phase = "scan"
    /\ scanned = Len(archive)
    /\ phase' = "iter"
    /\ UNCHANGED <<archive, edited_files, media, scanned, iter_pos, records>>
    /\ UNCHANGED nonPlannerVars

\* MediaStore::len, as Takeout::len and Uploader::len return it
Takeout_len == Cardinality(DOMAIN media)

\* MediaStore::is_empty, as Takeout::is_empty returns it
Takeout_is_empty == DOMAIN media = {}

\* Iter::edited_exists; the lookup is an expect("Media must exist")
edited_exists(store, file) == store[file.name].edited

\* Mutant of emit_original: && in place of ||.
emit_original_and(store, policy, file) ==
    ~edited_exists(store, file) /\ use_original(policy)

\* The test of Iter::original
emit_original(store, policy, file) ==
    ~edited_exists(store, file) \/ use_original(policy)

\* The test of Iter::edited
emit_edited(policy) == use_edited(policy)

\* Iter::record, Record::try_from: the record of the entry at position p
\* borrows the Media of its canonical name.
record(store, p, file) == [entry |-> p, media |-> store[file.name]]

\* Iter::next, called with pos entries of the archive consumed: the entries
\* are taken one by one until one yields a record or none is left.  A failed
\* unwrap or expect panics.
RECURSIVE iter_next(_)
iter_next(pos) ==
    IF pos >= Len(archive)
    THEN [kind |-> "none", pos |-> pos]
    ELSE LET file == Filename_try_from(archive[pos + 1].path)
         IN  IF ~file.ok
             THEN [kind |-> "panic", pos |-> pos + 1]
             ELSE CASE file.filetype = "Original" ->
                          IF file.name \notin DOMAIN media
                          THEN [kind |-> "panic", pos |-> pos + 1]
                          ELSE IF emit_original(media, edited_files, file)
                               THEN [kind |-> "some", pos |-> pos + 1,
                                     record |-> record(media, pos + 1, file)]
                               ELSE iter_next(pos + 1)
                    [] file.filetype = "Edited" ->
                          IF emit_edited(edited_files)
                          THEN IF file.name \notin DOMAIN media
                               THEN [kind |-> "panic", pos |-> pos + 1]
                               ELSE [kind |-> "some", pos |-> pos + 1,
                                     record |-> record(media, pos + 1, file)]
                          ELSE iter_next(pos + 1)
                    [] OTHER -> iter_next(pos + 1)

\* One call of Iter::next by the consumer of Takeout::records.
IterNext ==
    /\ phase = "iter"
    /\ LET r == iter_next(iter_pos)
       IN  /\ iter_pos' = r.pos
           /\ phase' = CASE r.kind = "some" -> "iter"
                         [] r.kind = "none" -> "done"
                         [] OTHER -> "panic"
           /\ records' = IF r.kind = "some" THEN Append(records, r.record)
                         ELSE records
    /\ UNCHANGED <<archive, edited_files, media, scanned>>
    /\ UNCHANGED nonPlannerVars

NextPlanner == ScanEntry \/ ScanDone \/ IterNext

SpecPlanner == InitPlanner /\ [][NextPlanner]_vars

(***************************************************************************)
(* Properties of the planner.                                              *)
(***************************************************************************)

\* What the classifier makes of the entry at position p of the archive.
FileAt(p) == Filename_try_from(archive[p].path)

KindAt(p) == IF FileAt(p).ok THEN FileAt(p).filetype ELSE "Error"

\* The entry at position p was yielded as a record.
Emitted(p) == \E i \in 1..Len(records) : records[i].entry = p

\* The canonical name of the entry at p has an original and an edited data
\* entry in the archive.
HasBothVersions(p) ==
    /\ \E q \in 1..Len(archive) :
          KindAt(q) = "Original" /\ FileAt(q).name = FileAt(p).name
    /\ \E q \in 1..Len(archive) :
          KindAt(q) = "Edited" /\ FileAt(q).name = FileAt(p).name

\* C8: when the iterator is exhausted, an Original entry was yielded iff the
\* store shows no edited version for its name or the policy is not
\* PreferEdited, an Edited entry iff the policy is not PreferOriginal, no
\* other entry was yielded, and none twice; so of a name with both versions
\* PreferEdited yielded only the edited entries, PreferOriginal only the
\* original ones and UseBoth both, in whatever order the archive has them.
RecordIteratorPolicy ==
    phase = "done" =>
        /\ \A p \in 1..Len(archive) :
              Emitted(p) <=>
                 \/ /\ KindAt(p) = "Original"
                    /\ \/ ~media[FileAt(p).name].edited
                       \/ edited_files # "PreferEdited"
                 \/ /\ KindAt(p) = "Edited"
                    /\ edited_files # "PreferOriginal"
        /\ \A i, j \in 1..Len(records) : i < j => records[i].entry < records[j].entry
        /\ \A p \in 1..Len(archive) :
              KindAt(p) \in {"Original", "Edited"} /\ HasBothVersions(p) =>
                 Emitted(p) <=>
                    \/ edited_files = "UseBoth"
                    \/ edited_files = "PreferEdited" /\ KindAt(p) = "Edited"
                    \/ edited_files = "PreferOriginal" /\ KindAt(p) = "Original"

\* C8 witness: under PreferEdited an archive that has the original of a name
\* before its edited version was iterated and yielded the edited entry alone.
RecordIteratorPolicyWitness ==
    /\ phase = "done"
    /\ edited_files = "PreferEdited"
    /\ Len(archive) = 2
    /\ KindAt(1) = "Original"
    /\ KindAt(2) = "Edited"
    /\ FileAt(1).name = FileAt(2).name
    /\ Len(records) = 1
    /\ records[1].entry = 2

EmittedNames == {records[i].media.name : i \in 1..Len(records)}

\* C9 as claimed: the number of records yielded is the number of names in the
\* store with (original and use_original) or (edited and use_edited).
PlannerConservationAsClaimed ==
    phase = "done" =>
        Len(records) =
            Cardinality({n \in DOMAIN media :
                \/ media[n].original /\ edited_files # "PreferEdited"
                \/ media[n].edited /\ edited_files # "PreferOriginal"})

\* C9 as amended: the number of distinct canonical names among the records
\* yielded is the number of names in the store with an original or an edited
\* version, and the number of records is at least that: a name is yielded
\* once for each of its selected data entries.
PlannerConservation ==
    phase = "done" =>
        /\ Cardinality(EmittedNames) =
              Cardinality({n \in DOMAIN media : media[n].original \/ media[n].edited})
        /\ Len(records) >= Cardinality(EmittedNames)

\* C9 witness: under UseBoth two names were yielded in three records.
PlannerConservationWitness ==
    /\ phase = "done"
    /\ edited_files = "UseBoth"
    /\ Cardinality(EmittedNames) = 2
    /\ Len(records) = 3

\* The archive of scenario S4: Album1/a.jpg, Album1/a.jpg.json,
\* Album1/a-edited.jpg and Album2/a.jpg, in any order.
IsS4Archive ==
    /\ Len(archive) = 4
    /\ Range(archive) = {Entries[1], Entries[2], Entries[3], Entries[4]}

S4Scanned == IsS4Archive /\ edited_files = "PreferEdited" /\ phase = "done"

S4OneRecord ==
    /\ Len(records) = 1
    /\ records[1].media.name = <<"a", ".", "jpg">>
    /\ records[1].media.edited
    /\ records[1].media.date_taken = <<1370762069>>

\* C10 as claimed: the one record has the albums [Album1, Album1, Album2].
S4AsClaimed ==
    S4Scanned =>
        /\ S4OneRecord
        /\ records[1].media.albums = <<"Album1", "Album1", "Album2">>

\* C10 as amended: the one record has name a.jpg, edited = true, the date of
\* the sidecar and one album per entry of the archive, the sidecar included,
\* in the order of the archive: [Album1, Album1, Album1, Album2] for the
\* order the scenario lists.
S4Scenario ==
    S4Scanned =>
        /\ S4OneRecord
        /\ records[1].media.albums = [p \in 1..4 |-> FileAt(p).album]
        /\ archive = <<Entries[1], Entries[2], Entries[3], Entries[4]>> =>
              records[1].media.albums = <<"Album1", "Album1", "Album1", "Album2">>

\* C10 witness: the archive of S4, in the order listed, was iterated to the
\* end under PreferEdited.
S4ScenarioWitness ==
    /\ S4Scanned
    /\ archive = <<Entries[1], Entries[2], Entries[3], Entries[4]>>
    /\ Len(records) = 1

\* The names of the store made from sidecars alone.
MetadataOnlyNames == {n \in DOMAIN media : ~media[n].original /\ ~media[n].edited}

\* The names of the store with a data file recorded.
DataNames == {n \in DOMAIN media : media[n].original \/ media[n].edited}

\* C11: every record yielded refers to a media item with edited or original
\* set, as the store holds it; pass 2 leaves the store as pass 1 built it, so
\* a name made from a sidecar alone stays in the store, and it is the name of
\* no record.
RecordsHaveData ==
    /\ [](/\ \A i \in 1..Len(records) :
               /\ records[i].media.original \/ records[i].media.edited
               /\ records[i].media.name \in DOMAIN media
               /\ records[i].media = media[records[i].media.name]
          /\ \A n \in MetadataOnlyNames : n \notin EmittedNames)
    /\ [][(phase \in {"iter", "done"}) => UNCHANGED media]_vars

\* C11 witness: the iterator is exhausted, it yielded a record, and the store
\* holds a name made from a sidecar alone.
RecordsHaveDataWitness ==
    /\ phase = "done"
    /\ Len(records) >= 1
    /\ MetadataOnlyNames # {}

\* C12 as claimed: len is the number of names with a data file recorded, and
\* is_empty holds iff that number is 0.
LenCountsImagesAndVideos ==
    phase \in {"iter", "done"} =>
        /\ Takeout_len = Cardinality(DataNames)
        /\ Takeout_is_empty <=> Cardinality(DataNames) = 0

\* Pass 1 is at an entry whose path the classifier rejects.
AtUnclassifiableEntry ==
    /\ phase = "scan"
    /\ scanned < Len(archive)
    /\ ~Filename_try_from(archive[scanned + 1].path).ok

\* C13 as claimed: in pass 1 an entry whose path cannot be classified is
\* dropped, the scan goes on with the next entry, and the constructor never
\* fails because of it.
PathErrorIsIgnored ==
    /\ [](phase # "error")
    /\ [][AtUnclassifiableEntry =>
            /\ phase' = "scan"
            /\ scanned' = scanned + 1
            /\ UNCHANGED media]_vars

(***************************************************************************)
(*                  CALLS OF Filename::normalize_duplicates                *)
(***************************************************************************)

NonCallIdle == EngineIdle /\ PlannerIdle /\ AlbumIdle /\ FacadeIdle /\ ChainIdle

\* The strings normalize_duplicates is called with: every name of up to
\* MaxNameLen tokens.  "1" and "12" are counters of one and of two digits.
NameTokens == {"a", ".", "(", ")", "1", "12"}

Names == SeqsUpTo(NameTokens, MaxNameLen)

InitNormalize ==
    /\ call_input \in Names
    /\ call_results = <<>>
    /\ NonCallIdle

\* Filename::normalize_duplicates(&mut name): called on the input and then
\* once more on the string it left.
CallNormalize ==
    /\ Len(call_results) < 2
    /\ call_results' =
          Append(call_results,
                 normalize_duplicates(IF call_results = <<>> THEN call_input
                                      ELSE call_results[Len(call_results)]))
    /\ UNCHANGED <<call_input, nonCallVars>>

NextNormalize == CallNormalize

SpecNormalize == InitNormalize /\ [][NextNormalize]_vars

\* C14 as claimed: normalising a second time changes nothing.
NormalizeIsIdempotent ==
    Len(call_results) = 2 => call_results[2] = call_results[1]

\* The input is stem.ext(n): it ends with a counter in parentheses that
\* follows an extension.
IsStemExtCounter(s) ==
    /\ Len(s) >= 6
    /\ s[Len(s)] = ")"
    /\ s[Len(s) - 1] \in {"1", "12"}
    /\ s[Len(s) - 2] = "("
    /\ s[Len(s) - 3] \in {"a", "1", "12"}
    /\ s[Len(s) - 4] = "."

\* C15 as claimed: stem.ext(n) becomes stem(n).ext, a name that does not end
\* with ")" (an already normalised stem(n).ext is one) is returned unchanged,
\* and the result has every character of the input.
NormalizeMovesCounter ==
    Len(call_results) >= 1 =>
        LET s == call_input
            r == call_results[1]
        IN  /\ IsStemExtCounter(s) =>
                  r = SubSeq(s, 1, Len(s) - 5)
                        \o <<"(", s[Len(s) - 1], ")", ".", s[Len(s) - 3]>>
            /\ ~EndsWith(s, ")") => r = s
            /\ \A t \in NameTokens : Count(r, t) = Count(s, t)

(***************************************************************************)
(*                        CALLS OF THE CLASSIFIER                          *)
(***************************************************************************)

\* The paths album/base.ext the classifier is called with: base is a
\* non-empty name of up to MaxBaseLen tokens.
BaseTokens == {"a", ".", "-", "edited", "json", "supplemental-metadata"}

Extensions == {"jpg", "JPG", "heic", "json", "JSON", "txt"}

Paths ==
    {[dirs |-> <<album>>, file |-> base \o <<".", ext>>] :
        album \in {"Album1", "Album2"},
        base \in SeqsUpTo(BaseTokens, MaxBaseLen) \ {<<>>},
        ext \in Extensions}

InitClassify ==
    /\ call_input \in Paths
    /\ call_results = <<>>
    /\ NonCallIdle

\* Filename::try_from(&entry) for the entry with the path call_input
CallClassify ==
    /\ call_results = <<>>
    /\ call_results' = <<Filename_try_from(call_input)>>
    /\ UNCHANGED <<call_input, nonCallVars>>

NextClassify == CallClassify

SpecClassify == InitClassify /\ [][NextClassify]_vars

\* base and ext of the path album/base.ext
BaseOf(path) == SubSeq(path.file, 1, Len(path.file) - 2)

ExtOf(path) == path.file[Len(path.file)]

IsMediaExt(ext) == ext \in MEDIA_EXTENSIONS \/ ext = "JPG"

IsJsonExt(ext) == ext \in {"json", "JSON"}

\* pat occurs in s at position i
OccursAt(s, pat, i) ==
    i >= 1 /\ i + Len(pat) - 1 <= Len(s) /\ SubSeq(s, i, i + Len(pat) - 1) = pat

Occurs(s, pat) == \E i \in 1..Len(s) : OccursAt(s, pat, i)

\* s without the occurrences of the two-token pattern pat (its two tokens
\* differ, so no two occurrences overlap)
Without(s, pat) ==
    LET keep == {i \in 1..Len(s) : ~OccursAt(s, pat, i) /\ ~OccursAt(s, pat, i - 1)}
    IN  [k \in 1..Cardinality(keep) |->
            s[CHOOSE i \in keep : Cardinality({j \in keep : j <= i}) = k]]

\* The file name without "-edited", ".supplemental-metadata" and ".json",
\* taken out in this order.
Stripped(s) ==
    Without(Without(Without(s, <<"-", "edited">>), <<".", "supplemental-metadata">>),
            <<".", "json">>)

\* What the claim and its amendment share: the album, the kinds, and the
\* name of a sidecar.
ClassificationKinds(path, f) ==
    /\ IsMediaExt(ExtOf(path)) \/ IsJsonExt(ExtOf(path)) =>
          f.ok /\ f.album = path.dirs[1]
    /\ IsMediaExt(ExtOf(path)) =>
          f.filetype = IF Occurs(BaseOf(path), <<"edited">>) THEN "Edited"
                       ELSE "Original"
    /\ IsJsonExt(ExtOf(path)) =>
          f.filetype = "Metadata" /\ f.name = normalize_duplicates(Stripped(path.file))

\* C16 as claimed: a media extension and a base without "edited" give
\* (album, base.ext, Original), a base with "edited" gives Edited, and json
\* gives Metadata with the stripped name.
ClassificationRoundTripAsClaimed ==
    call_results # <<>> =>
        /\ ClassificationKinds(call_input, call_results[1])
        /\ IsMediaExt(ExtOf(call_input))
              /\ ~Occurs(BaseOf(call_input), <<"edited">>) =>
                 call_results[1].name = call_input.file

\* C16 as amended: as claimed, but the name of an Original is base.ext only
\* when base contains neither ".json" nor ".supplemental-metadata": these
\* are taken out of the name of every entry, whatever its kind.
ClassificationRoundTrip ==
    call_results # <<>> =>
        /\ ClassificationKinds(call_input, call_results[1])
        /\ IsMediaExt(ExtOf(call_input))
              /\ ~Occurs(BaseOf(call_input), <<"edited">>) =>
                 /\ call_results[1].name = Stripped(call_input.file)
                 /\ ~Occurs(BaseOf(call_input), <<".", "json">>)
                       /\ ~Occurs(BaseOf(call_input), <<".", "supplemental-metadata">>) =>
                          call_results[1].name = call_input.file

\* C16 witness: Album2/a.json.JPG was classified as the Original a.JPG of
\* Album2.
ClassificationRoundTripWitness ==
    /\ call_input = [dirs |-> <<"Album2">>, file |-> <<"a", ".", "json", ".", "JPG">>]
    /\ call_results = << [ok |-> TRUE, album |-> "Album2",
                          name |-> <<"a", ".", "JPG">>, filetype |-> "Original"] >>

(***************************************************************************)
(*                          THE Id SHAPE CHECK                             *)
(***************************************************************************)

\* An id is a sequence of characters, each standing for its class: "a" for
\* an alphanumeric character, "-" for the dash, "/" for any other one.
CharClasses == {"a", "-", "/"}

is_alphanumeric(c) == c = "a"

\* Mutant of is_safe: the length alone is checked.
is_safe_length_only(id) == Len(id) = 36

\* Id::is_safe; idx counts from 0
is_safe(id) ==
    IF Len(id) # 36
    THEN FALSE
    ELSE \A i \in 1..Len(id) :
            LET idx == i - 1
                c == id[i]
            IN  \/ is_alphanumeric(c)
                \/ (idx = 8 /\ c = "-")
                \/ (idx = 13 /\ c = "-")
                \/ (idx = 18 /\ c = "-")
                \/ (idx = 23 /\ c = "-")

\* impl TryFrom<String> for Id
Id_try_from(id) ==
    IF is_safe(id) THEN [ok |-> TRUE, id |-> id]
    ELSE [ok |-> FALSE, error |-> "InvalidId"]

\* An id shaped like f0edb589-1312-4161-b41e-0a18f127b3dd, of n characters.
UuidShaped(n) == [i \in 1..n |-> IF (i - 1) \in {8, 13, 18, 23} THEN "-" ELSE "a"]

\* The ids the check is called with: strings of 36 characters, and of up to
\* MaxLenDelta fewer or more, that are alphanumeric but for the characters
\* at the positions IdProbes, which are of any class.
IdProbes == {0, 8, 9, 13, 18, 23, 35}

IdStrings ==
    UNION {{[i \in 1..n |-> IF (i - 1) \in IdProbes THEN f[i - 1] ELSE "a"] :
               f \in [IdProbes -> CharClasses]} :
              n \in (36 - MaxLenDelta)..(36 + MaxLenDelta)}

InitId ==
    /\ call_input \in IdStrings
    /\ call_results = <<>>
    /\ NonCallIdle

\* Id::try_from(call_input)
CallIdTryFrom ==
    /\ call_results = <<>>
    /\ call_results' = <<Id_try_from(call_input)>>
    /\ UNCHANGED <<call_input, nonCallVars>>

NextId == CallIdTryFrom

SpecId == InitId /\ [][NextId]_vars

\* C17 as claimed: an id is accepted iff it has 36 characters, those at the
\* positions 8, 13, 18 and 23 are '-' and the others are alphanumeric; every
\* other string is rejected with InvalidId.
IdHasUuidShape ==
    call_results # <<>> =>
        /\ call_results[1].ok <=>
              /\ Len(call_input) = 36
              /\ \A i \in 1..Len(call_input) :
                    IF (i - 1) \in {8, 13, 18, 23}
                    THEN call_input[i] = "-"
                    ELSE call_input[i] = "a"
        /\ ~call_results[1].ok => call_results[1].error = "InvalidId"

(***************************************************************************)
(*                          THE ALBUM INTEGRATOR                           *)
(***************************************************************************)

\* Option<AssetMoveError>: <<>> for None, <<e>> for Some(e).
\* Mutant of MovedAsset_from_failed_upload: no error is set.
MovedAsset_from_failed_upload_no_error(id) ==
    [error |-> <<>>, id |-> id, success |-> FALSE]

\* MovedAsset::from_failed_upload
MovedAsset_from_failed_upload(id) ==
    [error |-> <<"UploadFailed">>, id |-> id, success |-> FALSE]

\* MovedAsset::new
MovedAsset_new(id, success) ==
    IF success THEN [error |-> <<>>, id |-> id, success |-> success]
    ELSE [error |-> <<"Unknown">>, id |-> id, success |-> success]

\* The positions of results with, and without, the status Failure.
FailedAt(results) == {i \in 1..Len(results) : results[i].status = "Failure"}

\* The elements of s at the positions in keep, in order.
Pick(s, keep) ==
    [k \in 1..Cardinality(keep) |->
        s[CHOOSE i \in keep : Cardinality({j \in keep : j <= i}) = k]]

\* add_uploaded, iter_success: the ids of the results that are not Failure
iter_success(results) ==
    LET kept == Pick(results, (1..Len(results)) \ FailedAt(results))
    IN  [k \in 1..Len(kept) |-> kept[k].id]

\* Mutant of iter_failed: the failed uploads are left out.
iter_failed_none(results) == <<>>

\* add_uploaded, iter_failed: a MovedAsset for every result that is Failure
iter_failed(results) ==
    LET kept == Pick(results, FailedAt(results))
    IN  [k \in 1..Len(kept) |-> MovedAsset_from_failed_upload(kept[k].id)]

\* The Vec<Uploaded> the engine can return for a stream of up to MaxAssets
\* assets: position a is Created or Duplicate with the id of the server, or
\* the Failure made by from_failure.
UploadedOf(a, status) ==
    IF status = "Failure" THEN from_failure(DeviceIdOf(a))
    ELSE [status |-> status, id |-> RemoteId(a), device_asset_id |-> DeviceIdOf(a)]

UploadedVectors ==
    UNION {{[a \in 1..k |-> UploadedOf(a, st[a])] : st \in [1..k -> Statuses]} :
              k \in 0..MaxAssets}

\* The ids an album can have: one shaped like a UUID, one with a character
\* that is neither alphanumeric nor '-', one that is too short.
AlbumIds ==
    {UuidShaped(36), [UuidShaped(36) EXCEPT ![1] = "/"], UuidShaped(35)}

\* What the server can say of one id of a PUT /albums/{id}/assets: success
\* and an optional error, each as the server chooses.
MoveOutcomes == [success : BOOLEAN, error : {<<>>, <<"Duplicate">>}]

\* The errors add_assets returns when the request or its answer fails.
RequestErrors == {"Status", "Transport", "InvalidResponse"}

InitAlbum ==
    /\ album_id \in AlbumIds
    /\ upload_results \in UploadedVectors
    /\ album_pc = "call"
    /\ put_requests = <<>>
    /\ put_response = <<>>
    /\ server_assets = {}
    /\ add_result = <<>>
    /\ EngineIdle
    /\ PlannerIdle
    /\ CallIdle
    /\ ChainIdle
    /\ FacadeIdle

\* Album::add_uploaded up to the request of Album::add_assets: the shape
\* check of the album id, then PUT /albums/{id}/assets with the ids of the
\* uploads that did not fail.
AddUploadedSend ==
    /\ album_pc = "call"
    /\ IF ~is_safe(album_id)
       THEN /\ add_result' = <<[ok |-> FALSE, error |-> "InvalidUrl"]>>
            /\ album_pc' = "done"
            /\ UNCHANGED put_requests
       ELSE /\ put_requests' = Append(put_requests,
                                      [album |-> album_id,
                                       ids |-> iter_success(upload_results)])
            /\ album_pc' = "sent"
            /\ UNCHANGED add_result
    /\ UNCHANGED <<album_id, upload_results, put_response, server_assets>>
    /\ UNCHANGED nonAlbumVars

\* The server answers 200 with one result per id of the request, and has
\* the ids it reports success for in the album; add_assets decodes the list
\* and add_uploaded extends it with iter_failed.
ServerAnswers200 ==
    /\ album_pc = "sent"
    /\ LET ids == put_requests[Len(put_requests)].ids
       IN  \E outcome \in [1..Len(ids) -> MoveOutcomes] :
              LET response == [i \in 1..Len(ids) |->
                                 [error |-> outcome[i].error, id |-> ids[i],
                                  success |-> outcome[i].success]]
              IN  /\ put_response' = response
                  /\ server_assets' = server_assets
                        \cup {ids[i] : i \in {j \in 1..Len(ids) : outcome[j].success}}
                  /\ add_result' = <<[ok |-> TRUE,
                                      value |-> response \o iter_failed(upload_results)]>>
    /\ album_pc' = "done"
    /\ UNCHANGED <<album_id, upload_results, put_requests>>
    /\ UNCHANGED nonAlbumVars

\* The request fails, the status is not 200 or the body is no result list:
\* add_assets returns the error and add_uploaded passes it on.
ServerAnswersError ==
    /\ album_pc = "sent"
    /\ \E e \in RequestErrors : add_result' = <<[ok |-> FALSE, error |-> e]>>
    /\ album_pc' = "done"
    /\ UNCHANGED <<album_id, upload_results, put_requests, put_response, server_assets>>
    /\ UNCHANGED nonAlbumVars

NextAlbum == AddUploadedSend \/ ServerAnswers200 \/ ServerAnswersError

SpecAlbum == InitAlbum /\ [][NextAlbum]_vars

(***************************************************************************)
(* Properties of the album integrator.                                     *)
(***************************************************************************)

\* The album id cannot pass the shape check: it has not 36 characters, or
\* one of them is neither alphanumeric nor '-'.
AlbumIdIsUnsafe ==
    Len(album_id) # 36 \/ \E i \in 1..Len(album_id) : album_id[i] = "/"

\* C18: with an album id that fails the shape check add_uploaded, through
\* add_assets, returns InvalidUrl; no PUT is ever sent and the server's
\* album stays as it was.
UnsafeAlbumIdSendsNothing ==
    AlbumIdIsUnsafe /\ album_pc # "idle" =>
        /\ put_requests = <<>>
        /\ album_pc # "sent"
        /\ server_assets = {}
        /\ album_pc = "done" => add_result = <<[ok |-> FALSE, error |-> "InvalidUrl"]>>

\* C18 witness: add_uploaded has returned for an album with an id that
\* fails the check and for results that hold an uploaded asset.
UnsafeAlbumIdSendsNothingWitness ==
    /\ AlbumIdIsUnsafe
    /\ album_pc = "done"
    /\ \E i \in 1..Len(upload_results) : upload_results[i].status = "Created"

\* The entry add_uploaded makes for a failed upload.
IsUploadFailedEntry(m) ==
    m = [error |-> <<"UploadFailed">>, id |-> EmptyId, success |-> FALSE]

\* C19: the request of add_uploaded carries the ids of the Created and
\* Duplicate results, in their order; the list it returns has the server's
\* entry for each of them, then one entry with empty id, success = false
\* and error = UploadFailed per Failure result: one entry per input asset.
ComposeUploadAlbum ==
    /\ \A r \in 1..Len(put_requests) :
          LET ids == put_requests[r].ids
              ok == {i \in 1..Len(upload_results) :
                        upload_results[i].status \in {"Created", "Duplicate"}}
          IN  /\ Len(ids) = Cardinality(ok)
              /\ \A i \in ok :
                    ids[Cardinality({j \in ok : j <= i})] = upload_results[i].id
    /\ \A x \in Range(add_result) :
          x.ok =>
             LET sent == Len(put_requests[1].ids)
             IN  /\ Len(x.value) = Len(upload_results)
                 /\ \A k \in 1..Len(x.value) :
                       IF k <= sent
                       THEN x.value[k].id = put_requests[1].ids[k]
                       ELSE IsUploadFailedEntry(x.value[k])
                 /\ Len(x.value) - sent = Count([i \in 1..Len(upload_results) |->
                                                   upload_results[i].status], "Failure")

\* C19 witness: add_uploaded returned a list for results with an uploaded
\* asset and a failed upload.
ComposeUploadAlbumWitness ==
    /\ album_pc = "done"
    /\ add_result # <<>>
    /\ add_result[1].ok
    /\ \E i \in 1..Len(upload_results) : upload_results[i].status = "Failure"
    /\ \E i \in 1..Len(upload_results) : upload_results[i].status = "Duplicate"

\* success implies no error, and no success implies an error.
ErrorIffNoSuccess(m) == (m.success => m.error = <<>>) /\ (~m.success => m.error # <<>>)

\* C20 as claimed: every MovedAsset of a returned list has an error iff it
\* has no success.
MovedAssetsAreConsistent ==
    \A x \in Range(add_result) :
        x.ok => \A k \in 1..Len(x.value) : ErrorIffNoSuccess(x.value[k])

\* C20 as amended: the entries the client makes itself (MovedAsset::new,
\* from_failed_upload) have an error iff they have no success; the entries
\* decoded from the server's answer are returned as the server sent them.
ClientMovedAssetsAreConsistent ==
    /\ \A id \in {EmptyId, RemoteId(1)}, success \in BOOLEAN :
          ErrorIffNoSuccess(MovedAsset_new(id, success))
    /\ \A x \in Range(add_result) :
          x.ok =>
             /\ IsPrefix(put_response, x.value)
             /\ \A k \in (Len(put_response) + 1)..Len(x.value) :
                   ErrorIffNoSuccess(x.value[k])

\* C20 witness: add_uploaded returned a list with an entry of the server
\* and an entry for a failed upload.
ClientMovedAssetsAreConsistentWitness ==
    /\ add_result # <<>>
    /\ add_result[1].ok
    /\ Len(put_response) >= 1
    /\ Len(add_result[1].value) > Len(put_response)

(***************************************************************************)
(* Shutdown and capacity of the engine.                                    *)
(***************************************************************************)

AllWorkersExited == \A w \in Workers : worker[w].pc = "exited"

\* What the claimed and the amended shutdown order share: the work channel
\* is closed only when the source is exhausted, a worker has exited only
\* with the work channel closed and drained, the caller joins a worker only
\* once it has exited and waits for the collector only with all workers
\* joined, and post returns the collector's vector once the collector ended.
ShutdownSteps ==
    /\ caller \in {"join_workers", "join_collector", "ok"} => produced = Len(assets)
    /\ \A w \in Workers :
          worker[w].pc = "exited" => caller # "produce" /\ asset_channel = <<>>
    /\ \A w \in 1..joined : worker[w].pc = "exited"
    /\ caller \in {"join_collector", "ok"} => joined = threads
    /\ caller = "ok" => collector = "done" /\ returned = result

\* C29 as claimed: the collector terminates only after the caller has joined
\* all workers, and never while a worker can still send.
ShutdownOrderAsClaimed ==
    /\ ShutdownSteps
    /\ collector = "done" => joined = threads /\ AllWorkersExited

\* C29 as amended: the collector terminates once every worker has exited
\* and the result channel is drained - the workers hold the only senders of
\* the result channel - which can be before the caller has joined them; it
\* never terminates while a worker can still send.
ShutdownOrder ==
    /\ ShutdownSteps
    /\ collector = "done" => AllWorkersExited /\ result_channel = <<>>

\* C29 witness: the collector has terminated with all results of a stream
\* while the caller has not joined every worker yet.
ShutdownOrderWitness ==
    /\ collector = "done"
    /\ caller = "join_workers"
    /\ joined < threads
    /\ Len(result) = Len(assets)
    /\ Len(assets) >= 2

\* The assets sent by the producer whose upload has not completed.
InFlight == produced - Cardinality({a \in 1..Len(assets) : uploads[a] >= 1})

\* C30: the work channel never holds more than 2 * threads assets, and the
\* producer sends nothing while it is full; the assets sent and not yet
\* uploaded are at most those of the channel and one per worker; a worker
\* that finds the channel empty while the producer still sends does not
\* exit; every asset sent is in the channel, with a worker or uploaded.
WorkChannelIsBounded ==
    /\ [](/\ Len(asset_channel) <= 2 * threads
          /\ InFlight <= 2 * threads + threads
          /\ \A a \in 1..produced : InChannel(a) + InHands(a) + uploads[a] >= 1)
    /\ [][/\ (Len(asset_channel) = 2 * threads) => (produced' = produced)
          /\ \A w \in Workers :
                (worker[w].pc # "exited" /\ worker'[w].pc = "exited")
                    => caller # "produce"]_vars

\* C30 witness: the channel of a one-worker engine is full, the worker holds
\* an asset and the source has more to give.
WorkChannelIsBoundedWitness ==
    /\ threads = 1
    /\ Len(asset_channel) = 2
    /\ worker[1].pc = "upload"
    /\ caller = "produce"
    /\ InFlight = 3

(***************************************************************************)
(*                          THE BULK PRE-CHECK                             *)
(***************************************************************************)

MaxBulk == 2

BulkIds == {"a", "b"}

\* AssetRemoteStatus
RemoteStatuses == {"Unknown", "Present", "Absent"}

\* From<BulkCheckAction> for AssetRemoteStatus
status_from_action(action) ==
    IF action = "accept" THEN "Absent" ELSE "Present"

\* The assets handed to bulk_check: what the iterator will yield, in order.
BulkAssets == SeqsUpTo([id : BulkIds, remote_status : {"Unknown"}], MaxBulk)

\* What the request can come back with: an error of the call, a response
\* with a status other than 200, or 200 with a list of results.
BulkResponses ==
    {[kind |-> "error", error |-> e, results |-> <<>>] : e \in {"Transport"}}
        \cup {[kind |-> "status", error |-> "Status", results |-> <<>>]}
        \cup {[kind |-> "ok", error |-> "", results |-> r] :
                 r \in SeqsUpTo([id : BulkIds, action : {"accept", "reject"}], MaxBulk)}

\* assets.map(BulkCheckRequest::from).collect(): the items the adapter takes
\* from the iterator behind the mutable reference - all it has left.
collect_taken(iter) == Len(iter)

\* BulkUploadCheck::post(client, assets): `after` is the iterator behind the
\* reference when post returns, `written` the remote statuses the loop has
\* assigned, by position in the input.
BulkUploadCheck_post(iter, response) ==
    LET taken == collect_taken(iter)
        data == [i \in 1..taken |-> iter[i].id]
        rest == SubSeq(iter, taken + 1, Len(iter))
        results == response.results
        pairs == IF Len(rest) <= Len(results) THEN Len(rest) ELSE Len(results)
    IN  IF response.kind # "ok"
        THEN [ok |-> FALSE, error |-> response.error, request |-> data,
              after |-> rest, written |-> << >>]
        ELSE IF Len(rest) # Len(results)
        THEN [ok |-> FALSE, error |-> "InvalidResponse", request |-> data,
              after |-> rest, written |-> << >>]
        ELSE [ok |-> TRUE, error |-> "", request |-> data,
              after |-> SubSeq(rest, pairs + 1, Len(rest)),
              written |-> [i \in {taken + j : j \in {k \in 1..pairs :
                                                  rest[k].id = results[k].id}}
                              |-> status_from_action(results[i - taken].action)]]

InitBulkCheck ==
    /\ call_input \in [assets : BulkAssets, response : BulkResponses]
    /\ call_results = <<>>
    /\ NonCallIdle

\* Client::bulk_check(&mut assets)
CallBulkCheck ==
    /\ call_results = <<>>
    /\ call_results' = <<BulkUploadCheck_post(call_input.assets, call_input.response)>>
    /\ UNCHANGED <<call_input, nonCallVars>>

NextBulkCheck == CallBulkCheck

SpecBulkCheck == InitBulkCheck /\ [][NextBulkCheck]_vars

\* The remote status of the i-th asset handed in, after the call.
BulkStatusAfter(i) ==
    IF i \in DOMAIN call_results[1].written
    THEN call_results[1].written[i]
    ELSE call_input.assets[i].remote_status

\* C28 as claimed: when the server answers 200 with as many results as
\* assets were handed in, bulk_check returns Ok and every asset whose id
\* equals the id of the result at its position is Absent on accept and
\* Present on reject, the others as before; with another number of results
\* it returns InvalidResponse and no status has changed.
BulkCheckUpdatesStatuses ==
    (call_results # <<>> /\ call_input.response.kind = "ok") =>
        LET M == Len(call_input.assets)
            results == call_input.response.results
        IN  IF Len(results) = M
            THEN /\ call_results[1].ok
                 /\ \A i \in 1..M :
                       BulkStatusAfter(i) =
                           IF call_input.assets[i].id = results[i].id
                           THEN status_from_action(results[i].action)
                           ELSE call_input.assets[i].remote_status
            ELSE /\ ~call_results[1].ok
                 /\ call_results[1].error = "InvalidResponse"
                 /\ \A i \in 1..M :
                       BulkStatusAfter(i) = call_input.assets[i].remote_status

(***************************************************************************)
(*                      ALBUMS: Album::get_or_create                       *)
(***************************************************************************)

MaxServerAlbums == 2

MaxCalls == 3

\* The name of the album every asset of a Takeout archive is added to.
ImportAlbum == "Google Takout Import"

AlbumNames == {"X", "Y"}

\* The id of the k-th album of the server.
AlbumId(k) == <<"album", k>>

\* The album lists of a server: an album is a name and an id, no two albums
\* have the same id, several may have the same name.
ServerAlbumLists ==
    {[k \in 1..Len(names) |-> [name |-> names[k], id |-> AlbumId(k)]] :
        names \in SeqsUpTo(AlbumNames \cup {ImportAlbum}, MaxServerAlbums)}

\* What the server does with the requests of one call of get_or_create: it
\* answers them, it fails GET /albums, or it fails POST /albums (or the
\* request of Client::user before it).
AlbumAnswers == {"ok", "list_error", "create_error"}

\* Album::new: POST /albums.  The server appends the album and answers 201
\* with it.
Album_new(albums, name, answer) ==
    IF answer = "create_error"
    THEN [ok |-> FALSE, album |-> <<>>, albums |-> albums, created |-> FALSE]
    ELSE LET album == [name |-> name, id |-> AlbumId(Len(albums) + 1)]
         IN  [ok |-> TRUE, album |-> <<album>>, albums |-> Append(albums, album),
              created |-> TRUE]

\* Mutant of get_or_create: the album is created without looking it up.
get_or_create_always_new(albums, name, answer) ==
    IF answer = "list_error"
    THEN [ok |-> FALSE, album |-> <<>>, albums |-> albums, created |-> FALSE]
    ELSE Album_new(albums, name, answer)

\* Album::get_or_create: GET /albums, the first album of the list with the
\* name, or Album::new if there is none.
get_or_create(albums, name, answer) ==
    IF answer = "list_error"
    THEN [ok |-> FALSE, album |-> <<>>, albums |-> albums, created |-> FALSE]
    ELSE LET hits == {k \in 1..Len(albums) : albums[k].name = name}
         IN  IF hits # {}
             THEN [ok |-> TRUE,
                   album |-> <<albums[CHOOSE k \in hits : \A h \in hits : k <= h]>>,
                   albums |-> albums, created |-> FALSE]
             ELSE Album_new(albums, name, answer)

\* The entry of album_calls for a call: the name, the list of the server
\* before the call and what the call returned.
AlbumCall(name, r) ==
    [name |-> name, before |-> server_albums, ok |-> r.ok, album |-> r.album,
     created |-> r.created]

InitGetOrCreate ==
    /\ server_albums \in ServerAlbumLists
    /\ album_calls = <<>>
    /\ facade = <<>>
    /\ EngineIdle
    /\ PlannerIdle
    /\ CallIdle
    /\ ChainIdle
    /\ AlbumIdle

\* Album::get_or_create(client, name)
CallGetOrCreate ==
    /\ Len(album_calls) < MaxCalls
    /\ \E name \in AlbumNames \cup {ImportAlbum}, answer \in AlbumAnswers :
          LET r == get_or_create(server_albums, name, answer)
          IN  /\ server_albums' = r.albums
              /\ album_calls' = Append(album_calls, AlbumCall(name, r))
    /\ UNCHANGED <<facade, nonFacadeVars>>

NextGetOrCreate == CallGetOrCreate

SpecGetOrCreate == InitGetOrCreate /\ [][NextGetOrCreate]_vars

\* The positions of the albums with the name in a list of the server.
AlbumsNamed(albums, name) == {k \in 1..Len(albums) : albums[k].name = name}

\* C21: a successful get_or_create returns the first album of the server's
\* list with the name and creates nothing, or, when the list has no album
\* with the name, the album it creates; a failed one creates nothing; after
\* a successful call every later successful call with the same name returns
\* the same id and creates no album.
GetOrCreateIsIdempotent ==
    /\ \A c \in 1..Len(album_calls) :
          LET call == album_calls[c]
              hits == AlbumsNamed(call.before, call.name)
          IN  /\ call.created <=> (call.ok /\ hits = {})
              /\ (call.ok /\ hits # {}) =>
                    /\ call.album[1] \in {call.before[k] : k \in hits}
                    /\ \A k \in hits :
                          call.before[k] = call.album[1] \/
                              \E h \in hits : h < k /\ call.before[h] = call.album[1]
              /\ call.created =>
                    /\ call.album[1].name = call.name
                    /\ call.album[1].id \notin {call.before[k].id : k \in DOMAIN call.before}
    /\ \A c, d \in 1..Len(album_calls) :
          (c < d /\ album_calls[c].ok /\ album_calls[d].ok
                 /\ album_calls[c].name = album_calls[d].name) =>
              /\ album_calls[d].album[1].id = album_calls[c].album[1].id
              /\ ~album_calls[d].created
    /\ album_calls # <<>> =>
          Len(server_albums) =
              Len(album_calls[1].before)
                  + Cardinality({c \in 1..Len(album_calls) : album_calls[c].created})

\* C21 witness: a call has created an album, and a later call with the same
\* name has returned it while an older album of another name is listed first.
GetOrCreateIsIdempotentWitness ==
    \E c, d \in 1..Len(album_calls) :
        /\ c < d
        /\ album_calls[c].created
        /\ album_calls[c].before # <<>>
        /\ album_calls[d].ok
        /\ album_calls[d].name = album_calls[c].name
        /\ album_calls[d].album = album_calls[c].album

(***************************************************************************)
(*                  THE TAKEOUT UPLOADER: Uploader::upload                 *)
(***************************************************************************)

MaxRecords == 2

\* The canonical names of the media of an archive, in the order
\* Takeout::albums visits them.
FacadeNames == <<"a.jpg", "b.jpg">>

\* What pass 2 yields for an entry: an Err, a record the filter rejects, a
\* record the filter lets pass whose data cannot be read, or a record the
\* filter lets pass whose data can be read.
RecordKinds == {"err", "rejected", "unreadable", "pass"}

FacadeRecords == SeqsUpTo([name : Range(FacadeNames), kind : RecordKinds], MaxRecords)

\* Media.albums of a canonical name: one album per entry of the name.
AlbumLists == {<<"X">>, <<"X", "Y">>}

FacadeMedia == [Range(FacadeNames) -> AlbumLists]

\* The albums a server can have before the upload.
FacadeServerLists == {l \in ServerAlbumLists : Len(l) <= 1}

\* Takeout::albums for one album: the name of a media once per occurrence
\* of the album in the media's list.
RECURSIVE album_list(_, _, _)
album_list(store, album, k) ==
    IF k > Len(FacadeNames)
    THEN <<>>
    ELSE [i \in 1..Count(store[FacadeNames[k]], album) |-> FacadeNames[k]]
             \o album_list(store, album, k + 1)

\* Takeout::albums: album name -> names of its media
Takeout_albums(store) ==
    [album \in UNION {Range(store[n]) : n \in DOMAIN store} |->
        album_list(store, album, 1)]

\* Asset::try_from(record): the device_asset_id is the record's name, the
\* bytes are the record's data; an error when the data cannot be read.
Asset_try_from(rec) ==
    IF rec.kind = "unreadable"
    THEN [ok |-> FALSE, error |-> "NoPhotoError"]
    ELSE [ok |-> TRUE, device_asset_id |-> rec.name]

\* The closure of filter_assets on one item of Takeout::records: None for an
\* Err and for a record the filter rejects, else the unwrapped conversion.
filter_assets_item(rec) ==
    IF rec.kind \in {"err", "rejected"}
    THEN [kind |-> "none"]
    ELSE IF Asset_try_from(rec).ok
         THEN [kind |-> "asset", device_asset_id |-> Asset_try_from(rec).device_asset_id]
         ELSE [kind |-> "panic"]

\* What the engine pushes for the asset made of the record at position p,
\* given the outcome of its POST /assets.
facade_uploaded(p, device_asset_id, outcome) ==
    IF outcome = "error"
    THEN from_failure(device_asset_id)
    ELSE [status |-> IF outcome = "created" THEN "Created" ELSE "Duplicate",
          id |-> RemoteId(p),
          device_asset_id |-> device_asset_id]

\* Mutant of filename2assetid: the failed uploads are inserted as well.
filename2assetid_with_failures(uploaded) ==
    [d \in {uploaded[k].device_asset_id : k \in 1..Len(uploaded)} |->
        uploaded[CHOOSE k \in 1..Len(uploaded) :
                    /\ uploaded[k].device_asset_id = d
                    /\ \A h \in 1..Len(uploaded) :
                          uploaded[h].device_asset_id = d => h <= k].id]

\* recreate_albums, filename2assetid: device_asset_id -> id over the uploads
\* that are Created or Duplicate; a later insert replaces an earlier one.
filename2assetid(uploaded) ==
    LET good == (1..Len(uploaded)) \ FailedAt(uploaded)
    IN  [d \in {uploaded[k].device_asset_id : k \in good} |->
            uploaded[CHOOSE k \in good :
                        /\ uploaded[k].device_asset_id = d
                        /\ \A h \in good :
                              uploaded[h].device_asset_id = d => h <= k].id]

\* asset_device_ids.iter().filter_map(|id| filename2assetid.get(id)...)
resolve_ids(device_ids, lookup) ==
    LET kept == Pick(device_ids, {k \in 1..Len(device_ids) : device_ids[k] \in DOMAIN lookup})
    IN  [k \in 1..Len(kept) |-> lookup[kept[k]]]

\* Mutant of device_ids_to_moved_asset_failure: nothing is synthesised.
device_ids_to_moved_asset_failure_none(device_ids, lookup) == <<>>

\* recreate_albums, device_ids_to_moved_asset_failure
device_ids_to_moved_asset_failure(device_ids, lookup) ==
    LET ids == resolve_ids(device_ids, lookup)
    IN  [k \in 1..Len(ids) |-> MovedAsset_new(ids[k], FALSE)]

\* What PUT /albums/{id}/assets can come back with for n ids: an error, or
\* 200 with one result per id.
AddAnswers(n) ==
    {[ok |-> FALSE, success |-> <<>>]}
        \cup {[ok |-> TRUE, success |-> sc] : sc \in [1..n -> BOOLEAN]}

\* Album::add_assets(client, ids)
add_assets(ids, answer) ==
    IF ~answer.ok
    THEN [ok |-> FALSE, value |-> <<>>]
    ELSE [ok |-> TRUE,
          value |-> [k \in 1..Len(ids) |->
                        [error |-> IF answer.success[k] THEN <<>> ELSE <<"Duplicate">>,
                         id |-> ids[k],
                         success |-> answer.success[k]]]]

InitFacade ==
    /\ server_albums \in FacadeServerLists
    /\ album_calls = <<>>
    /\ \E rs \in FacadeRecords, store \in FacadeMedia :
          \* every entry of a name has put its album on the name's list
          /\ \A n \in DOMAIN store :
                Cardinality({p \in 1..Len(rs) : rs[p].name = n}) <= Len(store[n])
          /\ facade = [records |-> rs, media |-> store, pc |-> "start", pos |-> 0,
                    inflight |-> {}, proxy |-> "unspawned", proxy_channel |-> <<>>,
                    engine_results |-> <<>>, uploaded |-> <<>>, forwarded |-> <<>>,
                    todo |-> {}, added |-> <<>>, recreated |-> <<>>,
                    moved_assets |-> <<>>, err_at |-> ""]
    /\ EngineIdle
    /\ PlannerIdle
    /\ CallIdle
    /\ ChainIdle
    /\ AlbumIdle

\* The proxy_sender of Uploader::upload: dropped when upload returns early,
\* else moved into upload_to_album and dropped when its proxy thread ends,
\* which is after the engine has returned.
ProxySenderAlive == facade.pc \in {"get_import", "upload"}

\* filter_assets(filter_records)? and thread::spawn of the proxy observer:
\* Takeout::records fails, or the lazy stream is built and the thread runs.
FacadeStart ==
    /\ facade # <<>>
    /\ facade.pc = "start"
    /\ \/ facade' = [facade EXCEPT !.pc = "err", !.err_at = "records"]
       \/ facade' = [facade EXCEPT !.pc = "get_import", !.proxy = "running"]
    /\ UNCHANGED <<server_albums, album_calls, nonFacadeVars>>

\* Mutant of GetImportAlbum: the upload goes on without the album.
GetImportAlbumGoesOn ==
    /\ facade # <<>>
    /\ facade.pc = "get_import"
    /\ \E answer \in AlbumAnswers :
          LET r == get_or_create(server_albums, ImportAlbum, answer)
          IN  /\ server_albums' = r.albums
              /\ album_calls' = Append(album_calls, AlbumCall(ImportAlbum, r))
              /\ facade' = [facade EXCEPT !.pc = "upload"]
    /\ UNCHANGED nonFacadeVars

\* Album::get_or_create(client, "Google Takout Import")?
GetImportAlbum ==
    /\ facade # <<>>
    /\ facade.pc = "get_import"
    /\ \E answer \in AlbumAnswers :
          LET r == get_or_create(server_albums, ImportAlbum, answer)
          IN  /\ server_albums' = r.albums
              /\ album_calls' = Append(album_calls, AlbumCall(ImportAlbum, r))
              /\ facade' = IF r.ok
                           THEN [facade EXCEPT !.pc = "upload"]
                           ELSE [facade EXCEPT !.pc = "err", !.err_at = "import_album"]
    /\ UNCHANGED nonFacadeVars

\* The producer loop of the engine takes the next asset of the stream: the
\* closure of filter_assets runs on the next record; an asset is sent to
\* the workers, a failed unwrap panics.
FacadeProduce ==
    /\ facade # <<>>
    /\ facade.pc = "upload"
    /\ facade.pos < Len(facade.records)
    /\ LET p == facade.pos + 1
           item == filter_assets_item(facade.records[p])
       IN  facade' =
              CASE item.kind = "none" -> [facade EXCEPT !.pos = p]
                [] item.kind = "asset" ->
                      [facade EXCEPT !.pos = p, !.inflight = @ \cup {p}]
                [] item.kind = "panic" -> [facade EXCEPT !.pos = p, !.pc = "panic"]
    /\ UNCHANGED <<server_albums, album_calls, nonFacadeVars>>

\* A worker finishes Asset::upload for an asset, in any order of the assets
\* in flight; the collector pushes the result and forwards it, the proxy of
\* upload_to_album pushes it and forwards it to the proxy of Uploader::upload.
FacadeUploadCompletes ==
    /\ facade # <<>>
    /\ facade.pc = "upload"
    /\ \E p \in facade.inflight, outcome \in ServerOutcomes :
          LET u == facade_uploaded(p, facade.records[p].name, outcome)
          IN  facade' = [facade EXCEPT !.inflight = @ \ {p},
                                       !.engine_results = Append(@, u),
                                       !.proxy_channel = Append(@, u)]
    /\ UNCHANGED <<server_albums, album_calls, nonFacadeVars>>

\* upload_to_album once the engine has returned: its proxy thread is
\* joined and album.add_uploaded(self, results) is called; Uploader::upload
\* passes an error on and drops the vector of an Ok.
FacadeAddUploaded ==
    /\ facade # <<>>
    /\ facade.pc = "upload"
    /\ facade.pos = Len(facade.records)
    /\ facade.inflight = {}
    /\ LET ids == iter_success(facade.engine_results)
       IN  \E answer \in AddAnswers(Len(ids)) :
              facade' =
                 IF add_assets(ids, answer).ok
                 THEN [facade EXCEPT !.pc = "join_proxy",
                                     !.added = Append(@, [album |-> ImportAlbum, ids |-> ids])]
                 ELSE [facade EXCEPT !.pc = "err", !.err_at = "add_uploaded",
                                     !.added = Append(@, [album |-> ImportAlbum, ids |-> ids])]
    /\ UNCHANGED <<server_albums, album_calls, nonFacadeVars>>

\* The proxy observer thread: proxy_receiver.recv(), push, send to the
\* progress channel.
ProxyRecv ==
    /\ facade # <<>>
    /\ facade.proxy = "running"
    /\ facade.proxy_channel # <<>>
    /\ facade' = [facade EXCEPT !.proxy_channel = Tail(@),
                                !.uploaded = Append(@, Head(facade.proxy_channel)),
                                !.forwarded = Append(@, Head(facade.proxy_channel))]
    /\ UNCHANGED <<server_albums, album_calls, nonFacadeVars>>

\* The proxy observer thread: recv fails on the empty channel without a
\* sender, the loop ends and the thread returns its vector.
ProxyEnd ==
    /\ facade # <<>>
    /\ facade.proxy = "running"
    /\ facade.proxy_channel = <<>>
    /\ ~ProxySenderAlive
    /\ facade' = [facade EXCEPT !.proxy = "ended"]
    /\ UNCHANGED <<server_albums, album_calls, nonFacadeVars>>

\* threads.join() and the start of recreate_albums: takeout.albums()
FacadeJoinProxy ==
    /\ facade # <<>>
    /\ facade.pc = "join_proxy"
    /\ facade.proxy = "ended"
    /\ facade' = [facade EXCEPT !.pc = "recreate",
                                !.todo = DOMAIN Takeout_albums(facade.media)]
    /\ UNCHANGED <<server_albums, album_calls, nonFacadeVars>>

\* One round of the loop of recreate_albums, over the albums in the order
\* of a HashMap: get_or_create, add_assets with the ids the lookup resolves,
\* and the results of the server or the synthesised failures.
RecreateAlbum ==
    /\ facade # <<>>
    /\ facade.pc = "recreate"
    /\ \E album_name \in facade.todo, answer \in AlbumAnswers :
          LET r == get_or_create(server_albums, album_name, answer)
              lookup == filename2assetid(facade.uploaded)
              device_ids == Takeout_albums(facade.media)[album_name]
              ids == resolve_ids(device_ids, lookup)
          IN  /\ server_albums' = r.albums
              /\ album_calls' = Append(album_calls, AlbumCall(album_name, r))
              /\ IF r.ok
                 THEN \E add \in AddAnswers(Len(ids)) :
                         LET res == add_assets(ids, add)
                             entries == IF res.ok THEN res.value
                                        ELSE device_ids_to_moved_asset_failure(device_ids, lookup)
                         IN  facade' =
                                [facade EXCEPT
                                    !.todo = @ \ {album_name},
                                    !.added = Append(@, [album |-> album_name, ids |-> ids]),
                                    !.recreated = Append(@, [album |-> album_name,
                                                             outcome |-> IF res.ok THEN "ok"
                                                                         ELSE "add_error",
                                                             ids |-> ids,
                                                             entries |-> entries]),
                                    !.moved_assets = @ \o entries]
                 ELSE LET entries == device_ids_to_moved_asset_failure(device_ids, lookup)
                      IN  facade' =
                             [facade EXCEPT
                                 !.todo = @ \ {album_name},
                                 !.recreated = Append(@, [album |-> album_name,
                                                          outcome |-> "album_error",
                                                          ids |-> ids,
                                                          entries |-> entries]),
                                 !.moved_assets = @ \o entries]
    /\ UNCHANGED nonFacadeVars

\* recreate_albums returns moved_assets and Uploader::upload returns Ok of it.
FacadeReturn ==
    /\ facade # <<>>
    /\ facade.pc = "recreate"
    /\ facade.todo = {}
    /\ facade' = [facade EXCEPT !.pc = "done"]
    /\ UNCHANGED <<server_albums, album_calls, nonFacadeVars>>

NextFacade ==
    \/ FacadeStart
    \/ GetImportAlbum
    \/ FacadeProduce
    \/ FacadeUploadCompletes
    \/ FacadeAddUploaded
    \/ ProxyRecv
    \/ ProxyEnd
    \/ FacadeJoinProxy
    \/ RecreateAlbum
    \/ FacadeReturn

SpecFacade == InitFacade /\ [][NextFacade]_vars

\* The positions of the records that pass the filter.
PassingFilter ==
    {p \in 1..Len(facade.records) : facade.records[p].kind \in {"pass", "unreadable"}}

\* The uploads of the proxy's vector that are not Failure.
GoodUploads == (1..Len(facade.uploaded)) \ FailedAt(facade.uploaded)

\* C22 as claimed: the vector Uploader::upload returns has as many entries
\* as records pass the filter, and an entry without success for every
\* upload that failed.
FacadeCoversEveryRecord ==
    facade.pc = "done" =>
        /\ Len(facade.moved_assets) = Cardinality(PassingFilter)
        /\ \A k \in FailedAt(facade.uploaded) :
              \E m \in 1..Len(facade.moved_assets) :
                  /\ facade.moved_assets[m].id = facade.uploaded[k].id
                  /\ ~facade.moved_assets[m].success

\* C23 as claimed: the vector Uploader::upload returns has at least as many
\* entries with the error UploadFailed as the engine produced Failure
\* results.
FacadeReportsUploadFailures ==
    facade.pc = "done" =>
        Cardinality({m \in 1..Len(facade.moved_assets) :
                        IsUploadFailedEntry(facade.moved_assets[m])})
            >= Cardinality(FailedAt(facade.uploaded))

\* The entries recreate_albums makes for an album it could not get or
\* could not add to: one failure with the error Unknown per resolved id.
RecoveredPerAlbum ==
    \A k \in 1..Len(facade.recreated) :
        facade.recreated[k].outcome # "ok" =>
            facade.recreated[k].entries =
                [i \in 1..Len(facade.recreated[k].ids) |->
                    [error |-> <<"Unknown">>,
                     id |-> facade.recreated[k].ids[i],
                     success |-> FALSE]]

RECURSIVE RecreatedEntries(_)
RecreatedEntries(k) ==
    IF k = 0 THEN <<>>
    ELSE RecreatedEntries(k - 1) \o facade.recreated[k].entries

\* C24 as claimed: no error of an album creation or of an add-assets
\* request makes Uploader::upload return an error; each is recovered as
\* synthesised failures for its album.
AlbumErrorsNeverAbort ==
    /\ facade.pc = "err" => facade.err_at \notin {"import_album", "add_uploaded"}
    /\ RecoveredPerAlbum

\* C24 as amended: an error of get_or_create or add_assets for an album of
\* the archive, in recreate_albums, is recovered as synthesised failures
\* for that album and upload still returns Ok of all entries; an error of
\* get_or_create or of add_uploaded for the import album makes upload
\* return that error before recreate_albums runs.
AlbumErrorsAbortOnlyForImportAlbum ==
    /\ [](/\ facade.pc = "err" =>
                /\ facade.err_at \in {"records", "import_album", "add_uploaded"}
                /\ facade.recreated = <<>>
          /\ RecoveredPerAlbum
          /\ facade.moved_assets = RecreatedEntries(Len(facade.recreated))
          /\ facade.pc = "done" =>
                {facade.recreated[k].album : k \in 1..Len(facade.recreated)}
                    = DOMAIN Takeout_albums(facade.media))
    /\ [][(facade.pc = "recreate") => (facade'.pc \in {"recreate", "done"})]_vars

\* C24 witness: upload has returned Ok although one album could not be got
\* and another could not be added to, with failures synthesised for both.
AlbumErrorsAbortOnlyForImportAlbumWitness ==
    /\ facade.pc = "done"
    /\ \E k, j \in 1..Len(facade.recreated) :
          /\ facade.recreated[k].outcome = "album_error"
          /\ facade.recreated[k].entries # <<>>
          /\ facade.recreated[j].outcome = "add_error"
          /\ facade.recreated[j].entries # <<>>

ImportAlbumFailed == album_calls # <<>> /\ ~album_calls[1].ok

\* C25: when the import album cannot be obtained or created, upload has
\* failed with that call as its last step: no record was read, no asset
\* was uploaded or added, no other album was asked for, and the proxy
\* observer thread has nothing to forward and no sender to wait for.
ImportAlbumFailureFailsFast ==
    ImportAlbumFailed =>
        /\ album_calls[1].name = ImportAlbum
        /\ facade.pc = "err"
        /\ facade.err_at = "import_album"
        /\ Len(album_calls) = 1
        /\ facade.pos = 0
        /\ facade.inflight = {}
        /\ facade.engine_results = <<>>
        /\ facade.added = <<>>
        /\ facade.proxy_channel = <<>>
        /\ facade.uploaded = <<>>
        /\ facade.forwarded = <<>>
        /\ ~ProxySenderAlive
        /\ facade.proxy \in {"running", "ended"}

\* C25 witness: the import album could not be created for an archive with
\* a record to upload, and the proxy observer thread has ended.
ImportAlbumFailureFailsFastWitness ==
    /\ ImportAlbumFailed
    /\ PassingFilter # {}
    /\ facade.proxy = "ended"
    /\ facade.forwarded = <<>>

\* C26 as claimed: a record that passes the filter and whose data cannot be
\* read is skipped: nothing panics, and the records after it are read.
UnreadableRecordIsSkipped ==
    /\ facade.pc # "panic"
    /\ facade.pc \in {"join_proxy", "recreate", "done"} =>
          facade.pos = Len(facade.records)

\* C27 as claimed: when upload has returned and every album of the archive
\* was obtained and added to, the id of every upload that is Created or
\* Duplicate was in an add_assets request for each album of its media.
EveryUploadReachesItsAlbums ==
    (/\ facade.pc = "done"
     /\ \A k \in 1..Len(facade.recreated) : facade.recreated[k].outcome = "ok") =>
        \A k \in GoodUploads :
            \A album \in Range(facade.media[facade.uploaded[k].device_asset_id]) :
                \E j \in 1..Len(facade.added) :
                    /\ facade.added[j].album = album
                    /\ facade.uploaded[k].id \in Range(facade.added[j].ids)

(***************************************************************************)
(* Order of submission in the engine.                                      *)
(***************************************************************************)

\* How many assets the workers have taken from the work channel.
Taken == produced - Len(asset_channel)

\* C31: the workers take the assets from the work channel in the order the
\* source iterator produced them: the assets taken are always the first
\* Taken of the stream, the channel holds the next ones in order, and the
\* asset a worker takes is the oldest not taken; the order in which the
\* results arrive is not that order.
FifoSubmission ==
    /\ [](/\ asset_channel = [i \in 1..Len(asset_channel) |-> Taken + i]
          /\ \A a \in 1..Len(assets) :
                IF a <= Taken
                THEN InHands(a) + uploads[a] >= 1
                ELSE InHands(a) = 0 /\ uploads[a] = 0)
    /\ [][\A w \in Workers :
             (worker'[w].asset # 0 /\ worker'[w].asset # worker[w].asset)
                 => worker'[w].asset = Taken + 1]_vars

\* C31 witness: the second asset of the stream was taken after the first
\* and its result has arrived before the result of the first.
FifoSubmissionWitness ==
    /\ Len(assets) >= 2
    /\ Len(result) >= 2
    /\ assets[1].outcome # "error"
    /\ assets[2].outcome # "error"
    /\ result[1].id = RemoteId(2)
    /\ result[2].id = RemoteId(1)

(***************************************************************************)
(* The engine without workers.                                             *)
(***************************************************************************)

\* ParallelUpload::new takes any usize: the engine for every thread count
\* from 0, over the streams of the fair specification.
InitEngineAnyThreads ==
    /\ \E n \in 0..MaxThreads,
          as \in {x \in AssetStreams : \A a \in 1..Len(x) : x[a].outcome # "duplicate"} :
            EngineStart(n, as)
    /\ NonEngineIdle

SpecEngineAnyThreads == InitEngineAnyThreads /\ [][NextEngine]_vars /\ FairEngine

\* C38: with no worker thread nothing is ever sent or uploaded; for a
\* non-empty stream post returns Err(Multithread) at its first send, for an
\* empty one Ok of the empty vector; and under fair scheduling post returns
\* and the collector thread ends.
ZeroThreadsDoesNotHang ==
    /\ [](threads = 0 =>
            /\ produced = 0
            /\ asset_channel = <<>>
            /\ \A a \in 1..Len(assets) : uploads[a] = 0
            /\ result_channel = <<>>
            /\ result = <<>>
            /\ collector \in {"recv", "done"}
            /\ caller \in {"produce", "err", "join_collector", "ok"}
            /\ caller = "err" => assets # <<>>
            /\ caller \in {"join_collector", "ok"} => assets = <<>>
            /\ caller = "ok" => returned = <<>> /\ collector = "done")
    /\ (threads = 0) ~> (caller \in {"ok", "err"} /\ collector = "done")

\* C38 witness: post without workers has failed on a stream of assets and
\* its collector thread has ended.
ZeroThreadsDoesNotHangWitness ==
    /\ threads = 0
    /\ Len(assets) >= 2
    /\ caller = "err"
    /\ collector = "done"

(***************************************************************************)
(* The planner over archives of sidecars.                                  *)
(***************************************************************************)

\* Sidecars that metadata::parse rejects: no JSON, JSON without
\* photoTakenTime.timestamp, and a timestamp that is no number.
BadSidecars ==
    {NoContent,
     [json |-> TRUE, photoTakenTime |-> <<>>],
     Sidecar(<<"1", "x">>)}

\* Entries of one name: its data files, two sidecars with different dates
\* and the three sidecars that cannot be parsed.
SidecarEntries ==
    << [path |-> [dirs |-> <<"Album1">>, file |-> <<"a", ".", "jpg">>],
        content |-> NoContent],
       [path |-> [dirs |-> <<"Album1">>, file |-> <<"a", ".", "jpg", ".", "json">>],
        content |-> Sidecar(Timestamp)],
       [path |-> [dirs |-> <<"Album2">>, file |-> <<"a", ".", "jpg", ".", "json">>],
        content |-> Sidecar(<<"7">>)],
       [path |-> [dirs |-> <<"Album2">>, file |-> <<"a", "-", "edited", ".", "jpg">>],
        content |-> NoContent],
       [path |-> [dirs |-> <<"Album3">>, file |-> <<"a", ".", "jpg", ".", "json">>],
        content |-> NoContent],
       [path |-> [dirs |-> <<"Album4">>, file |-> <<"a", ".", "jpg", ".", "json">>],
        content |-> [json |-> TRUE, photoTakenTime |-> <<>>]],
       [path |-> [dirs |-> <<"Album5">>, file |-> <<"a", ".", "jpg", ".", "json">>],
        content |-> Sidecar(<<"1", "x">>)] >>

SidecarArchives ==
    {[i \in 1..Len(order) |-> SidecarEntries[order[i]]] :
        order \in {o \in SeqsUpTo(1..Len(SidecarEntries), MaxEntries) :
                      \A i, j \in 1..Len(o) : i # j => o[i] # o[j]}}

InitPlannerSidecars ==
    /\ archive \in SidecarArchives
    /\ edited_files \in HandleEdited
    /\ media = <<>>
    /\ phase = "scan"
    /\ scanned = 0
    /\ iter_pos = 0
    /\ records = <<>>
    /\ NonPlannerIdle

SpecPlannerSidecars == InitPlannerSidecars /\ [][NextPlanner]_vars

\* The entry at position p is a sidecar that cannot be parsed.
BadSidecarAt(p) == KindAt(p) = "Metadata" /\ archive[p].content \in BadSidecars

\* C32: in pass 1 a sidecar that cannot be parsed leaves the store as it
\* is and the scan goes on with the next entry; the scan never fails for
\* it, and a name with an original data entry is in the store, as an
\* original, whatever its sidecars are.
BadSidecarIsIgnored ==
    /\ [][(phase = "scan" /\ scanned < Len(archive) /\ BadSidecarAt(scanned + 1)) =>
             (media' = media /\ scanned' = scanned + 1 /\ phase' = "scan")]_vars
    /\ [](/\ phase # "error"
          /\ \A p \in 1..scanned :
                KindAt(p) = "Original" =>
                    FileAt(p).name \in DOMAIN media /\ media[FileAt(p).name].original)

\* C32 witness: the scan is over, the three sidecars of a name could not be
\* parsed and came before and after its data file, and the store has the
\* name with no date and the one album of its data file.
BadSidecarIsIgnoredWitness ==
    /\ phase = "iter"
    /\ Cardinality({p \in 1..Len(archive) : BadSidecarAt(p)}) = 3
    /\ BadSidecarAt(1)
    /\ BadSidecarAt(Len(archive))
    /\ \E n \in DOMAIN media :
          /\ media[n].original
          /\ media[n].date_taken = <<>>
          /\ Len(media[n].albums) = 1

\* The entry at position p makes pass 1 call a mutator of the store.
MutatorCalledAt(p) ==
    \/ KindAt(p) = "Original"
    \/ KindAt(p) = "Edited" /\ edited_files # "PreferOriginal"
    \/ KindAt(p) = "Metadata" /\ archive[p].content \notin BadSidecars

\* The fields of a name before a call: those of the store, or those of no
\* record yet.
FieldsBefore(n) ==
    IF n \in DOMAIN media THEN media[n]
    ELSE [date_taken |-> <<>>, name |-> n, edited |-> FALSE, original |-> FALSE,
          albums |-> <<>>]

\* C33: a call of add_original, add_edited or add_metadata changes the
\* record of its own canonical name only; it appends its album, and it sets
\* its own field - the flag of the original, the flag of the edited version
\* or the date - and leaves the two others as they were; so the album list
\* of a name has an entry per call and a flag that is set stays set.
MutatorsKeepTheirFrame ==
    /\ [][(phase = "scan" /\ scanned' = scanned + 1 /\ MutatorCalledAt(scanned + 1)) =>
             LET file == FileAt(scanned + 1)
                 old == FieldsBefore(file.name)
                 new == media'[file.name]
             IN  /\ DOMAIN media' = DOMAIN media \cup {file.name}
                 /\ \A n \in DOMAIN media \ {file.name} : media'[n] = media[n]
                 /\ new.name = file.name
                 /\ new.albums = Append(old.albums, file.album)
                 /\ CASE KindAt(scanned + 1) = "Original" ->
                            /\ new.original
                            /\ new.edited = old.edited
                            /\ new.date_taken = old.date_taken
                      [] KindAt(scanned + 1) = "Edited" ->
                            /\ new.edited
                            /\ new.original = old.original
                            /\ new.date_taken = old.date_taken
                      [] OTHER ->
                            /\ new.date_taken =
                                  <<metadata_parse(archive[scanned + 1].content).value>>
                            /\ new.original = old.original
                            /\ new.edited = old.edited]_vars
    /\ [](\A n \in DOMAIN media :
             /\ Len(media[n].albums) =
                   Cardinality({p \in 1..scanned :
                                   MutatorCalledAt(p) /\ FileAt(p).name = n})
             /\ media[n].original <=>
                   \E p \in 1..scanned : KindAt(p) = "Original" /\ FileAt(p).name = n
             /\ media[n].edited <=>
                   \E p \in 1..scanned :
                       /\ KindAt(p) = "Edited"
                       /\ edited_files # "PreferOriginal"
                       /\ FileAt(p).name = n)

\* C33 witness: all three mutators were called for one name, the second
\* sidecar after the first: both flags are set, the date is the one of the
\* second sidecar and the list has the four albums.
MutatorsKeepTheirFrameWitness ==
    /\ phase = "iter"
    /\ \E n \in DOMAIN media :
          /\ media[n].original
          /\ media[n].edited
          /\ media[n].date_taken = <<7>>
          /\ Len(media[n].albums) = 4
          /\ archive[1].content = Sidecar(Timestamp)

(***************************************************************************)
(* Pass 2 against the store of pass 1.                                     *)
(***************************************************************************)

\* C36: pass 2 over the archive and the policy of pass 1 fails no lookup in
\* the store: the iterator never panics, every Original entry of the
\* archive has its canonical name in the store, and so has every record
\* that was constructed.
StoreLookupsSucceed ==
    /\ phase # "panic"
    /\ phase \in {"iter", "done"} =>
          /\ \A p \in 1..Len(archive) :
                KindAt(p) = "Original" => FileAt(p).name \in DOMAIN media
          /\ \A p \in 1..Len(archive) :
                (KindAt(p) = "Edited" /\ use_edited(edited_files)) =>
                    FileAt(p).name \in DOMAIN media
          /\ \A i \in 1..Len(records) :
                /\ records[i].media.name \in DOMAIN media
                /\ records[i].media = media[records[i].media.name]

\* C36 witness: the iterator is exhausted after it looked up an Original
\* entry that has an edited version and constructed a record of an Edited
\* entry that has no original.
StoreLookupsSucceedWitness ==
    /\ phase = "done"
    /\ \E p \in 1..Len(archive) : KindAt(p) = "Original" /\ HasBothVersions(p)
    /\ \E i \in 1..Len(records) :
          /\ KindAt(records[i].entry) = "Edited"
          /\ ~HasBothVersions(records[i].entry)

\* C37 as claimed: under every policy, each canonical name with an original
\* or an edited data entry in the archive is the name of a record when the
\* iterator is exhausted.
NoMediaIsDropped ==
    phase = "done" =>
        \A p \in 1..Len(archive) :
            KindAt(p) \in {"Original", "Edited"} => FileAt(p).name \in EmittedNames

(***************************************************************************)
(* recreate_albums: the failures of an album and the ids that are sent.    *)
(***************************************************************************)

\* The uploads of the run that are Created or Duplicate and whose
\* device_asset_id is on the list of the album.
AssetsOfAlbum(album) ==
    {u \in GoodUploads :
        facade.uploaded[u].device_asset_id
            \in Range(Takeout_albums(facade.media)[album])}

\* C34 as claimed: when get_or_create or add_assets fails for an album in
\* recreate_albums, the entries made for the album are one failure with the
\* error Unknown per uploaded asset of the album, carrying the remote id of
\* the asset; the loop goes on and the entries of the other albums are kept.
FailuresPerAssetOfAlbum ==
    /\ facade.moved_assets = RecreatedEntries(Len(facade.recreated))
    /\ \A k \in 1..Len(facade.recreated) :
          facade.recreated[k].outcome # "ok" =>
              LET entries == facade.recreated[k].entries
                  of_album == AssetsOfAlbum(facade.recreated[k].album)
              IN  /\ Len(entries) = Cardinality(of_album)
                  /\ \A u \in of_album :
                        \E i \in 1..Len(entries) :
                            entries[i] = [error |-> <<"Unknown">>,
                                          id |-> facade.uploaded[u].id,
                                          success |-> FALSE]

\* The ids of the results of the engine that are Created or Duplicate.
GoodIds ==
    {facade.engine_results[k].id :
        k \in (1..Len(facade.engine_results)) \ FailedAt(facade.engine_results)}

\* The canonical names with a Created or Duplicate upload.
GoodNames == {facade.uploaded[u].device_asset_id : u \in GoodUploads}

\* C39: every id of an add-assets request, of add_uploaded and of
\* recreate_albums, and every id recreate_albums reports is the remote id of
\* a Created or Duplicate result of the run, never the id of a failure; an
\* album's request has an id per entry of its list whose name has such a
\* result and none for the others.
NoFailedIdIsAdded ==
    /\ EmptyId \notin GoodIds
    /\ \A r \in 1..Len(facade.added) : Range(facade.added[r].ids) \subseteq GoodIds
    /\ \A k \in 1..Len(facade.recreated) :
          LET device_ids == Takeout_albums(facade.media)[facade.recreated[k].album]
          IN  /\ Range(facade.recreated[k].ids) \subseteq GoodIds
              /\ \A i \in 1..Len(facade.recreated[k].entries) :
                    facade.recreated[k].entries[i].id \in GoodIds
              /\ Len(facade.recreated[k].ids) =
                    Cardinality({j \in 1..Len(device_ids) : device_ids[j] \in GoodNames})
    /\ \A m \in 1..Len(facade.moved_assets) : facade.moved_assets[m].id \in GoodIds

\* C39 witness: upload has returned after one upload failed and another
\* succeeded; an album with two entries on its list got a request with the
\* id of the uploaded asset alone, and another album that failed reported
\* a single id.
NoFailedIdIsAddedWitness ==
    /\ facade.pc = "done"
    /\ FailedAt(facade.engine_results) # {}
    /\ GoodIds # {}
    /\ \E k, j \in 1..Len(facade.recreated) :
          /\ facade.recreated[k].outcome = "ok"
          /\ Len(facade.recreated[k].ids) = 1
          /\ Len(Takeout_albums(facade.media)[facade.recreated[k].album]) >= 2
          /\ facade.recreated[j].outcome # "ok"
          /\ Len(facade.recreated[j].entries) = 1

(***************************************************************************)
(*        FROM THE COLLECTOR TO THE PROGRESS CHANNEL OF Uploader::upload   *)
(***************************************************************************)

MaxChain == 3

\* What the worker sends for the asset at position p of the stream.
chain_uploaded(p, outcome) ==
    facade_uploaded(p, DeviceIds[((p - 1) % Len(DeviceIds)) + 1], outcome)

\* Uploader::upload has spawned its proxy observer and got the import
\* album; Client::upload_to_album has spawned its own proxy thread t and
\* called the engine, whose workers and collector run.
InitChain ==
    /\ \E n \in 0..MaxChain, outcomes \in [1..MaxChain -> ServerOutcomes] :
          chain = [outcomes |-> [p \in 1..n |-> outcomes[p]],
                   pending |-> 1..n,
                   result_channel |-> <<>>, collector |-> "running", result |-> <<>>,
                   feedback_channel |-> <<>>, t |-> "running", t_results |-> <<>>,
                   proxy_channel |-> <<>>, proxy |-> "running", uploaded |-> <<>>,
                   progress |-> <<>>, pc |-> "post"]
    /\ EngineIdle
    /\ PlannerIdle
    /\ CallIdle
    /\ AlbumIdle
    /\ FacadeIdle

\* The workers hold the clones of result_sender until they have sent the
\* result of their last asset.
ResultSenderAlive == chain.pending # {}

\* Mutant of CollectorFeedbackAlive: the sender outlives the collector.
CollectorFeedbackKept == TRUE

\* The collector thread owns `feedback`, the sender of upload_to_album's
\* proxy channel, and drops it when its closure returns.
CollectorFeedbackAlive == chain.collector # "ended"

\* The thread t of upload_to_album owns `sender`, the proxy_sender of
\* Uploader::upload, and drops it when its closure returns.
ProgressSenderAlive == chain.t # "ended"

\* A worker sends the result of an asset on the result channel, in any
\* order of the assets.
ChainWorkerSend ==
    /\ chain # <<>>
    /\ \E p \in chain.pending :
          chain' = [chain EXCEPT
                       !.pending = @ \ {p},
                       !.result_channel = Append(@, chain_uploaded(p, chain.outcomes[p]))]
    /\ UNCHANGED nonChainVars

\* The collector: recv, push, send to the feedback channel.
ChainCollectorRecv ==
    /\ chain # <<>>
    /\ chain.collector = "running"
    /\ chain.result_channel # <<>>
    /\ chain' = [chain EXCEPT !.result_channel = Tail(@),
                              !.result = Append(@, Head(chain.result_channel)),
                              !.feedback_channel = Append(@, Head(chain.result_channel))]
    /\ UNCHANGED nonChainVars

\* The collector: recv fails on the empty channel without a sender.
ChainCollectorEnd ==
    /\ chain # <<>>
    /\ chain.collector = "running"
    /\ chain.result_channel = <<>>
    /\ ~ResultSenderAlive
    /\ chain' = [chain EXCEPT !.collector = "ended"]
    /\ UNCHANGED nonChainVars

\* ParallelUpload::post joins the workers and the collector and returns.
ChainPostReturns ==
    /\ chain # <<>>
    /\ chain.pc = "post"
    /\ chain.pending = {}
    /\ chain.collector = "ended"
    /\ chain' = [chain EXCEPT !.pc = "join_t"]
    /\ UNCHANGED nonChainVars

\* The thread t of upload_to_album: recv, push, send to the proxy channel
\* of Uploader::upload.
UploadToAlbumProxyRecv ==
    /\ chain # <<>>
    /\ chain.t = "running"
    /\ chain.feedback_channel # <<>>
    /\ chain' = [chain EXCEPT !.feedback_channel = Tail(@),
                              !.t_results = Append(@, Head(chain.feedback_channel)),
                              !.proxy_channel = Append(@, Head(chain.feedback_channel))]
    /\ UNCHANGED nonChainVars

\* The thread t of upload_to_album: recv fails, the thread returns its vector.
UploadToAlbumProxyEnd ==
    /\ chain # <<>>
    /\ chain.t = "running"
    /\ chain.feedback_channel = <<>>
    /\ ~CollectorFeedbackAlive
    /\ chain' = [chain EXCEPT !.t = "ended"]
    /\ UNCHANGED nonChainVars

\* upload_to_album: t.join()
UploadToAlbumJoin ==
    /\ chain # <<>>
    /\ chain.pc = "join_t"
    /\ chain.t = "ended"
    /\ chain' = [chain EXCEPT !.pc = "add_uploaded"]
    /\ UNCHANGED nonChainVars

\* upload_to_album: album.add_uploaded(self, results), and the `?` of
\* Uploader::upload on what it returns.
ChainAddUploaded ==
    /\ chain # <<>>
    /\ chain.pc = "add_uploaded"
    /\ \E ok \in BOOLEAN :
          chain' = [chain EXCEPT !.pc = IF ok THEN "join_proxy" ELSE "err"]
    /\ UNCHANGED nonChainVars

\* The proxy observer of Uploader::upload: recv, push, send to the
\* progress channel of the caller.
FacadeProxyRecv ==
    /\ chain # <<>>
    /\ chain.proxy = "running"
    /\ chain.proxy_channel # <<>>
    /\ chain' = [chain EXCEPT !.proxy_channel = Tail(@),
                              !.uploaded = Append(@, Head(chain.proxy_channel)),
                              !.progress = Append(@, Head(chain.proxy_channel))]
    /\ UNCHANGED nonChainVars

\* The proxy observer of Uploader::upload: recv fails, the thread returns
\* its vector.
FacadeProxyEnd ==
    /\ chain # <<>>
    /\ chain.proxy = "running"
    /\ chain.proxy_channel = <<>>
    /\ ~ProgressSenderAlive
    /\ chain' = [chain EXCEPT !.proxy = "ended"]
    /\ UNCHANGED nonChainVars

\* Uploader::upload: threads.join(), then recreate_albums(client, uploaded)
ChainJoinProxy ==
    /\ chain # <<>>
    /\ chain.pc = "join_proxy"
    /\ chain.proxy = "ended"
    /\ chain' = [chain EXCEPT !.pc = "recreate"]
    /\ UNCHANGED nonChainVars

NextChain ==
    \/ ChainWorkerSend
    \/ ChainCollectorRecv
    \/ ChainCollectorEnd
    \/ ChainPostReturns
    \/ UploadToAlbumProxyRecv
    \/ UploadToAlbumProxyEnd
    \/ UploadToAlbumJoin
    \/ ChainAddUploaded
    \/ FacadeProxyRecv
    \/ FacadeProxyEnd
    \/ ChainJoinProxy

\* Every thread that can take a step is scheduled.
FairChain ==
    /\ WF_vars(ChainWorkerSend)
    /\ WF_vars(ChainCollectorRecv)
    /\ WF_vars(ChainCollectorEnd)
    /\ WF_vars(ChainPostReturns)
    /\ WF_vars(UploadToAlbumProxyRecv)
    /\ WF_vars(UploadToAlbumProxyEnd)
    /\ WF_vars(UploadToAlbumJoin)
    /\ WF_vars(ChainAddUploaded)
    /\ WF_vars(FacadeProxyRecv)
    /\ WF_vars(FacadeProxyEnd)
    /\ WF_vars(ChainJoinProxy)

SpecChain == InitChain /\ [][NextChain]_vars /\ FairChain

\* The results the workers make, one per asset of the stream.
WorkerResults == [p \in DOMAIN chain.outcomes |-> chain_uploaded(p, chain.outcomes[p])]

\* C35: what the progress channel has received is what the proxy observer
\* of Uploader::upload has gathered, a prefix of what the thread of
\* upload_to_album has gathered, a prefix of the collector's vector; the
\* threads end in that order, each after its channel is drained; when
\* upload goes on to recreate_albums its vector is the engine's result, with
\* each result of a worker once; and every run gets there or returns the
\* error of add_uploaded, with all three threads ended and every result
\* passed on to the progress channel.
ProxyChainDelivers ==
    /\ [](chain # <<>> =>
            /\ chain.progress = chain.uploaded
            /\ IsPrefix(chain.uploaded, chain.t_results)
            /\ IsPrefix(chain.t_results, chain.result)
            /\ chain.t = "ended" =>
                  chain.collector = "ended" /\ chain.t_results = chain.result
            /\ chain.proxy = "ended" =>
                  chain.t = "ended" /\ chain.uploaded = chain.result
            /\ chain.pc # "post" =>
                  /\ chain.collector = "ended"
                  /\ \A u \in Range(WorkerResults) :
                        Count(chain.result, u) = Count(WorkerResults, u)
                  /\ Len(chain.result) = Len(WorkerResults)
            /\ chain.pc = "recreate" =>
                  /\ chain.proxy = "ended"
                  /\ chain.uploaded = chain.result
                  /\ chain.progress = chain.result)
    /\ <>(/\ chain.pc \in {"recreate", "err"}
          /\ chain.collector = "ended"
          /\ chain.t = "ended"
          /\ chain.proxy = "ended"
          /\ chain.progress = chain.result)
    /\ [](chain.pc = "join_proxy" => <>(chain.pc = "recreate"))

\* C35 witness: upload goes on to recreate_albums with three results that
\* the collector received in another order than the stream, a failure
\* among them, all passed on to the progress channel.
ProxyChainDeliversWitness ==
    /\ chain # <<>>
    /\ chain.pc = "recreate"
    /\ Len(chain.progress) = 3
    /\ chain.progress # WorkerResults
    /\ \E k \in 1..3 : chain.progress[k].status = "Failure"

====
